---------------------------- MODULE Spec2Model ----------------------------
(***************************************************************************)
(* Model of the remote analysis client of the pneumothorax detection app:  *)
(* analyzeImage and the functions it calls, in its two variants            *)
(*   "resize" : src/pneumothorax-detection-app/src/services/               *)
(*              pneumoDetection.ts (resizes the image first)               *)
(*   "plain"  : src/unnamed/part_000 (no resizing)                         *)
(*                                                                         *)
(* Strings are sequences of UTF-16 code units, each code unit a one-       *)
(* character TLA+ string; code units outside ASCII are written "U+XXXX".   *)
(***************************************************************************)
EXTENDS Integers, Sequences, FiniteSets, TLC

(***************************************************************************)
(* Bounds of the model.                                                    *)
(***************************************************************************)
\* keyword fragments concatenated into one diagnosis text
MaxFrags == 3
\* numeric fragments concatenated into one diagnosis text
MaxNumFrags == 4
\* lines of a result stream
MaxLines == 2
\* lines of a result stream of interleaved line kinds
MaxStreamLen == 3
\* the lines of a result stream made of every kind of line
MaxParseLen == 2
\* calls of the callbacks of the history store
MaxCalls == 3

(***************************************************************************)
(* String primitives of the JavaScript runtime.                            *)
(***************************************************************************)
UpperLetters ==
  <<"A","B","C","D","E","F","G","H","I","J","K","L","M",
    "N","O","P","Q","R","S","T","U","V","W","X","Y","Z","U+0178">>

LowerLetters ==
  <<"a","b","c","d","e","f","g","h","i","j","k","l","m",
    "n","o","p","q","r","s","t","u","v","w","x","y","z","U+00FF">>

\* String.prototype.toLowerCase on one code unit (U+0178 lower-cases to U+00FF)
LowerChar(c) ==
  IF \E i \in 1..Len(UpperLetters) : UpperLetters[i] = c
    THEN LowerLetters[CHOOSE i \in 1..Len(UpperLetters) : UpperLetters[i] = c]
    ELSE c

\* String.prototype.toLowerCase
ToLowerCase(s) == [i \in 1..Len(s) |-> LowerChar(s[i])]

\* does t occur in s at position i (1-based)
OccursAt(s, t, i) ==
  /\ i + Len(t) - 1 <= Len(s)
  /\ \A j \in 1..Len(t) : s[i + j - 1] = t[j]

\* String.prototype.includes
Includes(s, t) == \E i \in 1..(Len(s) + 1) : OccursAt(s, t, i)

\* String.prototype.startsWith
StartsWith(s, t) == OccursAt(s, t, 1)

Digits == {"0","1","2","3","4","5","6","7","8","9"}

\* the characters the regular expression class \s accepts
WhiteSpace == {" ", "\t", "\n", "U+00A0"}

DigitVal(c) ==
  CASE c = "0" -> 0 [] c = "1" -> 1 [] c = "2" -> 2 [] c = "3" -> 3
    [] c = "4" -> 4 [] c = "5" -> 5 [] c = "6" -> 6 [] c = "7" -> 7
    [] c = "8" -> 8 [] c = "9" -> 9

DigitChar(n) == <<"0","1","2","3","4","5","6","7","8","9">>[n + 1]

RECURSIVE DigitsValue(_)
\* the value of a string of decimal digits
DigitsValue(s) ==
  IF s = <<>> THEN 0
  ELSE 10 * DigitsValue(SubSeq(s, 1, Len(s) - 1)) + DigitVal(s[Len(s)])

RECURSIVE Pow10(_)
Pow10(n) == IF n = 0 THEN 1 ELSE 10 * Pow10(n - 1)

(***************************************************************************)
(* String literals of the source.                                          *)
(***************************************************************************)
S_pneumothorax_detected ==
  <<"p","n","e","u","m","o","t","h","o","r","a","x"," ",
    "d","e","t","e","c","t","e","d">>
S_positive == <<"p","o","s","i","t","i","v","e">>
S_pneumothorax == <<"p","n","e","u","m","o","t","h","o","r","a","x">>
S_no_pneumothorax ==
  <<"n","o"," ","p","n","e","u","m","o","t","h","o","r","a","x">>
S_not_detected == <<"n","o","t"," ","d","e","t","e","c","t","e","d">>
S_negative == <<"n","e","g","a","t","i","v","e">>

\* U+1F534, the red indicator glyph, as its two UTF-16 code units
RedGlyph == <<"U+D83D", "U+DD34">>
\* U+1F7E2, the green indicator glyph
GreenGlyph == <<"U+D83D", "U+DFE2">>
\* the four characters U+00F0 U+0178 U+201D U+00B4 that stand in the resizing
\* variant where the other variant has the red glyph
RedLiteralResize == <<"U+00F0", "U+0178", "U+201D", "U+00B4">>
\* U+00F0 U+0178 U+0178 U+00A2, in place of the green glyph
GreenLiteralResize == <<"U+00F0", "U+0178", "U+0178", "U+00A2">>

\* the literal passed to the third includes() of hasDetection
RedLiteral(variant) ==
  IF variant = "resize" THEN RedLiteralResize ELSE RedGlyph

\* the literal passed to the last includes() of hasDetection
GreenLiteral(variant) ==
  IF variant = "resize" THEN GreenLiteralResize ELSE GreenGlyph

(***************************************************************************)
(* Result interpreter.                                                     *)
(***************************************************************************)
\* hasDetection without its test for "positive"
HasDetection_NoPositive(variant, diag) ==
  LET diagLower == ToLowerCase(diag) IN
    \/ Includes(diagLower, S_pneumothorax_detected)
    \/ Includes(diagLower, RedLiteral(variant))
    \/ /\ Includes(diagLower, S_pneumothorax)
       /\ ~Includes(diagLower, S_no_pneumothorax)
       /\ ~Includes(diagLower, S_not_detected)
       /\ ~Includes(diagLower, S_negative)
       /\ ~Includes(diagLower, GreenLiteral(variant))

\* hasDetection of analyzeImage, for the diagnosis text diag
HasDetection(variant, diag) ==
  LET diagLower == ToLowerCase(diag) IN
    \/ Includes(diagLower, S_pneumothorax_detected)
    \/ Includes(diagLower, S_positive)
    \/ Includes(diagLower, RedLiteral(variant))
    \/ /\ Includes(diagLower, S_pneumothorax)
       /\ ~Includes(diagLower, S_no_pneumothorax)
       /\ ~Includes(diagLower, S_not_detected)
       /\ ~Includes(diagLower, S_negative)
       /\ ~Includes(diagLower, GreenLiteral(variant))

\* the end of the longest run of digits of s that starts at i (i - 1: none)
RECURSIVE DigitRunEnd(_, _)
DigitRunEnd(s, i) ==
  IF i <= Len(s) /\ s[i] \in Digits THEN DigitRunEnd(s, i + 1) ELSE i - 1

\* the end of the longest run of white space of s that starts at i
RECURSIVE SpaceRunEnd(_, _)
SpaceRunEnd(s, i) ==
  IF i <= Len(s) /\ s[i] \in WhiteSpace THEN SpaceRunEnd(s, i + 1) ELSE i - 1

\* /(\d+(?:\.\d+)?)\s*%/ tried at position i: the end of capture group 1,
\* or 0 when the expression does not match there.  \d+ and \s* are greedy;
\* giving back a digit or a space leaves a digit or a space in front of what
\* follows, which then cannot match, so only the longest runs can succeed.
PercentMatchAt(s, i) ==
  LET k  == DigitRunEnd(s, i)
      m  == IF k + 1 <= Len(s) /\ s[k + 1] = "." THEN DigitRunEnd(s, k + 2)
            ELSE k
      \* with the optional fraction when it has at least one digit
      g  == IF m >= k + 2 THEN m ELSE k
      pct(e) == LET p == SpaceRunEnd(s, e + 1) + 1
                IN  p <= Len(s) /\ s[p] = "%"
  IN  IF k < i THEN 0
      ELSE IF pct(g) THEN g
      ELSE IF g # k /\ pct(k) THEN k
      ELSE 0

\* the last position where the expression matches, not the first
PercentMatchStart_Last(s) ==
  IF \E i \in 1..Len(s) : PercentMatchAt(s, i) # 0
    THEN CHOOSE i \in 1..Len(s) :
           /\ PercentMatchAt(s, i) # 0
           /\ \A j \in (i + 1)..Len(s) : PercentMatchAt(s, j) = 0
    ELSE 0

\* the first position where the expression matches, 0 when there is none
PercentMatchStart(s) ==
  IF \E i \in 1..Len(s) : PercentMatchAt(s, i) # 0
    THEN CHOOSE i \in 1..Len(s) :
           /\ PercentMatchAt(s, i) # 0
           /\ \A j \in 1..(i - 1) : PercentMatchAt(s, j) = 0
    ELSE 0

\* parseFloat of capture group 1, as the fraction num/den
ParseFloat(g) ==
  LET k == DigitRunEnd(g, 1)
      frac == IF k < Len(g) THEN SubSeq(g, k + 2, Len(g)) ELSE <<>>
  IN  [num |-> DigitsValue(SubSeq(g, 1, k)) * Pow10(Len(frac)) + DigitsValue(frac),
       den |-> Pow10(Len(frac))]

\* confidence of analyzeImage, as the fraction num/den (0 is 0/1)
Confidence(diag) ==
  LET i == PercentMatchStart(diag) IN
    IF i = 0 THEN [num |-> 0, den |-> 1]
    ELSE LET f == ParseFloat(SubSeq(diag, i, PercentMatchAt(diag, i)))
         IN  [num |-> f.num, den |-> f.den * 100]

(***************************************************************************)
(* More string literals of the source, and the texts of the failures the   *)
(* runtime raises.                                                         *)
(***************************************************************************)
API_BASE ==
  <<"h","t","t","p","s",":","/","/","y","a","s","h","w","a","n","t",
    "h","s","c","-","p","n","e","u","m","o","p","r","e","d","i","c",
    "t","o","r",".","h","f",".","s","p","a","c","e">>
S_gradio_file ==
  <<"/","g","r","a","d","i","o","_","a","p","i","/","f","i","l","e",
    "=">>
S_http ==
  <<"h","t","t","p">>
S_data_colon ==
  <<"d","a","t","a",":">>
S_data_prefix ==
  <<"d","a","t","a",":"," ">>
S_Error_prefix ==
  <<"E","r","r","o","r",":"," ">>
S_generic_failure ==
  <<"A","n","a","l","y","s","i","s"," ","f","a","i","l","e","d",".",
    " ","P","l","e","a","s","e"," ","t","r","y"," ","a","g","a","i",
    "n",".">>
S_Upload_failed ==
  <<"U","p","l","o","a","d"," ","f","a","i","l","e","d",":"," ">>
S_Call_predict_failed ==
  <<"C","a","l","l"," ","p","r","e","d","i","c","t"," ","f","a","i",
    "l","e","d",":"," ">>
S_Result_fetch_failed ==
  <<"R","e","s","u","l","t"," ","f","e","t","c","h"," ","f","a","i",
    "l","e","d",":"," ">>
S_No_valid_result ==
  <<"N","o"," ","v","a","l","i","d"," ","r","e","s","u","l","t"," ",
    "d","a","t","a"," ","f","o","u","n","d">>
S_Base64_call_failed ==
  <<"B","a","s","e","6","4"," ","c","a","l","l"," ","f","a","i","l",
    "e","d",":"," ">>
S_Base64_result_fetch_failed ==
  <<"B","a","s","e","6","4"," ","r","e","s","u","l","t"," ","f","e",
    "t","c","h"," ","f","a","i","l","e","d",":"," ">>
S_No_valid_base64 ==
  <<"N","o"," ","v","a","l","i","d"," ","b","a","s","e","6","4"," ",
    "r","e","s","u","l","t"," ","f","o","u","n","d">>
S_dash ==
  <<" ","-"," ">>
S_Failed_to_load ==
  <<"F","a","i","l","e","d"," ","t","o"," ","l","o","a","d"," ","i",
    "m","a","g","e"," ","f","o","r"," ","r","e","s","i","z","i","n",
    "g">>
S_true ==
  <<"t","r","u","e">>
S_object_Object ==
  <<"[","o","b","j","e","c","t"," ","O","b","j","e","c","t","]">>
S_Network_request_failed ==
  <<"N","e","t","w","o","r","k"," ","r","e","q","u","e","s","t"," ",
    "f","a","i","l","e","d">>
S_JSON_Parse_error ==
  <<"J","S","O","N"," ","P","a","r","s","e"," ","e","r","r","o","r">>
S_Cannot_read_property ==
  <<"C","a","n","n","o","t"," ","r","e","a","d"," ","p","r","o","p",
    "e","r","t","y"," ","'","0","'"," ","o","f"," ","n","u","l","l">>
S_Image_manipulation_failed ==
  <<"I","m","a","g","e"," ","m","a","n","i","p","u","l","a","t","i",
    "o","n"," ","f","a","i","l","e","d">>
S_500 ==
  <<"5","0","0">>
S_404 ==
  <<"4","0","4">>
S_Internal_Server_Error ==
  <<"I","n","t","e","r","n","a","l"," ","S","e","r","v","e","r"," ",
    "E","r","r","o","r">>
S_Not_Found ==
  <<"N","o","t"," ","F","o","u","n","d">>
S_file_xray ==
  <<"f","i","l","e",":","/","/","/","x","r","a","y",".","j","p","g">>
S_data_image ==
  <<"d","a","t","a",":","i","m","a","g","e","/","j","p","e","g",";",
    "b","a","s","e","6","4",",","A","A">>
S_file_resized ==
  <<"f","i","l","e",":","/","/","/","c","a","c","h","e","/","r","e",
    "s","i","z","e","d",".","p","n","g">>
S_data_resized ==
  <<"d","a","t","a",":","i","m","a","g","e","/","p","n","g",";","b",
    "a","s","e","6","4",",","B","B">>
S_tmp_a ==
  <<"t","m","p","/","a",".","p","n","g">>
S_event_1 ==
  <<"e","v","1">>
S_event_2 ==
  <<"e","v","2">>

(***************************************************************************)
(* JavaScript values, as far as the client inspects them.  A value is a    *)
(* record: t its type, s the text of a string, n the value of a number     *)
(* (1/0 for a boolean), url and path the attributes of an object (empty:   *)
(* the attribute is absent), elems the elements of an array.               *)
(***************************************************************************)
JValue(t, s, n, url, path, elems) ==
  [s |-> s, t |-> t, n |-> n, url |-> url, path |-> path, elems |-> elems]

JUndefined == JValue("undefined", <<>>, 0, <<>>, <<>>, <<>>)
JNull == JValue("null", <<>>, 0, <<>>, <<>>, <<>>)
JStr(s) == JValue("string", s, 0, <<>>, <<>>, <<>>)
JNum(n) == JValue("number", <<>>, n, <<>>, <<>>, <<>>)
JBool(b) == JValue("boolean", <<>>, IF b THEN 1 ELSE 0, <<>>, <<>>, <<>>)
JObj(url, path) == JValue("object", <<>>, 0, url, path, <<>>)
JArr(elems) == JValue("array", <<>>, 0, <<>>, <<>>, elems)

\* a truthiness for which an empty array counts as false
Truthy_EmptyArrayFalse(v) ==
  CASE v.t = "undefined" -> FALSE
    [] v.t = "null" -> FALSE
    [] v.t = "string" -> v.s # <<>>
    [] v.t = "number" -> v.n # 0
    [] v.t = "boolean" -> v.n = 1
    [] v.t = "array" -> v.elems # <<>>
    [] OTHER -> TRUE

\* the truthiness of a value: what !v, v || w and v && w test
Truthy(v) ==
  CASE v.t = "undefined" -> FALSE
    [] v.t = "null" -> FALSE
    [] v.t = "string" -> v.s # <<>>
    [] v.t = "number" -> v.n # 0
    [] v.t = "boolean" -> v.n = 1
    [] OTHER -> TRUE

\* v[i], i counted from 0
Index(v, i) ==
  CASE v.t = "array" -> IF i < Len(v.elems) THEN v.elems[i + 1] ELSE JUndefined
    [] v.t = "string" -> IF i < Len(v.s) THEN JStr(<<v.s[i + 1]>>) ELSE JUndefined
    [] OTHER -> JUndefined

RECURSIVE DecimalString(_)
\* the decimal digits of a natural number
DecimalString(n) ==
  IF n < 10 THEN <<DigitChar(n)>>
  ELSE DecimalString(n \div 10) \o <<DigitChar(n % 10)>>

\* String(v) for a truthy value or the empty string
StringOf(v) ==
  CASE v.t = "string" -> v.s
    [] v.t = "number" -> DecimalString(v.n)
    [] v.t = "boolean" -> S_true
    [] v.t = "object" -> S_object_Object
    [] OTHER -> <<>>

\* `${API_BASE}/gradio_api/file=${p}`
FileUrl(p) == API_BASE \o S_gradio_file \o p

\* an extractImageUrl that looks at the path attribute before the url attribute
ExtractImageUrl_PathFirst(data) ==
  IF ~Truthy(data) THEN <<>>
  ELSE IF data.t = "string"
    THEN IF StartsWith(data.s, S_http) \/ StartsWith(data.s, S_data_colon)
           THEN data.s
           ELSE FileUrl(data.s)
  ELSE IF data.path # <<>> THEN FileUrl(data.path)
  ELSE IF data.url # <<>> THEN data.url
  ELSE <<>>

\* extractImageUrl
ExtractImageUrl(data) ==
  IF ~Truthy(data) THEN <<>>
  ELSE IF data.t = "string"
    THEN IF StartsWith(data.s, S_http) \/ StartsWith(data.s, S_data_colon)
           THEN data.s
           ELSE FileUrl(data.s)
  ELSE IF data.url # <<>> THEN data.url
  ELSE IF data.path # <<>> THEN FileUrl(data.path)
  ELSE <<>>

\* a diagnosis that is taken from strings only: every other value gives ""
DiagnosisOf_StringsOnly(d3) ==
  IF d3.t = "string" THEN d3.s ELSE <<>>

\* String(data[3]) without the default: an absent element gives its name
DiagnosisOf_NoDefault(d3) ==
  IF d3.t = "string" THEN d3.s
  ELSE IF Truthy(d3) THEN StringOf(d3)
  ELSE IF d3.t = "undefined" THEN <<"u","n","d","e","f","i","n","e","d">>
  ELSE <<"n","u","l","l">>

\* typeof data[3] === "string" ? data[3] : String(data[3] || "")
DiagnosisOf(d3) ==
  IF d3.t = "string" THEN d3.s
  ELSE IF Truthy(d3) THEN StringOf(d3) ELSE <<>>

(***************************************************************************)
(* The result stream.  A line is a record: head the text up to the JSON    *)
(* payload, k what JSON.parse makes of the rest of the line ("malformed":  *)
(* it throws; "object": an object, v the value of its output.data,         *)
(* undefined when it has none; "array": an array, v that array; "other":   *)
(* null, a number, a string or a boolean).                                 *)
(***************************************************************************)
Line(head, k, v) == [k |-> k, v |-> v, head |-> head]

\* the body of the for loop of predictWithGradioAPI and of predictWithBase64:
\* whether the line makes the loop return
LineReturns(line) ==
  /\ StartsWith(line.head, S_data_prefix)
  /\ line.k # "malformed"
  /\ \/ line.k = "object" /\ Truthy(line.v)
     \/ line.k = "array"

RECURSIVE ParseFrom_StopsAtMalformed(_, _)
\* a loop without the try around JSON.parse: a line that does not parse ends it
ParseFrom_StopsAtMalformed(ls, i) ==
  IF i > Len(ls) THEN 0
  ELSE IF StartsWith(ls[i].head, S_data_prefix) /\ ls[i].k = "malformed" THEN 0
  ELSE IF LineReturns(ls[i]) THEN i
  ELSE ParseFrom_StopsAtMalformed(ls, i + 1)

RECURSIVE ParseFrom(_, _)
\* the for loop over the lines from line i on: the first position whose line
\* makes the loop return, 0 when the loop runs to its end
ParseFrom(ls, i) ==
  IF i > Len(ls) THEN 0
  ELSE IF LineReturns(ls[i]) THEN i
  ELSE ParseFrom(ls, i + 1)

\* the parsing loop of predictWithGradioAPI
ParseGradio(ls) == ParseFrom(ls, 1)

\* an inline loop that accepts a bare array only, not an object with
\* output.data
LineReturnsBase64_ArraysOnly(line) ==
  /\ StartsWith(line.head, S_data_prefix)
  /\ line.k = "array"

\* the body of the for loop of predictWithBase64: whether the line makes
\* the loop return
LineReturnsBase64(line) ==
  IF StartsWith(line.head, S_data_prefix)
    THEN IF line.k = "malformed" THEN FALSE
         ELSE IF line.k = "object" /\ Truthy(line.v) THEN TRUE
         ELSE line.k = "array"
    ELSE FALSE

RECURSIVE ParseBase64From(_, _)
\* the for loop of predictWithBase64 over the lines from line i on
ParseBase64From(ls, i) ==
  IF i > Len(ls) THEN 0
  ELSE IF LineReturnsBase64(ls[i]) THEN i
  ELSE ParseBase64From(ls, i + 1)

\* the parsing loop of predictWithBase64
ParseBase64(ls) == ParseBase64From(ls, 1)

(***************************************************************************)
(* Errors: isError tells an instance of Error from any other thrown value, *)
(* message is its message, from the function that threw it.                *)
(***************************************************************************)
Err(message, from) == [message |-> message, from |-> from, isError |-> TRUE]
NonErr(from) == [message |-> <<>>, from |-> from, isError |-> FALSE]
NoError == [message |-> <<>>, from |-> "none", isError |-> FALSE]

(***************************************************************************)
(* Result assembler.                                                       *)
(***************************************************************************)
\* a result assembler that derives one region from a positive diagnosis
SuccessResult_WithRegion(variant, uri, predicted) ==
  LET data == IF Truthy(predicted) THEN predicted ELSE JArr(<<>>)
      diagnosis == DiagnosisOf(Index(data, 3))
  IN  [status |-> IF HasDetection(variant, diagnosis)
                    THEN "detected" ELSE "not_detected",
       imageUri |-> uri,
       boundingBoxes |-> IF HasDetection(variant, diagnosis)
                           THEN <<Confidence(diagnosis)>> ELSE <<>>,
       averageConfidence |-> Confidence(diagnosis),
       originalImage |-> ExtractImageUrl(Index(data, 0)),
       maskImage |-> ExtractImageUrl(Index(data, 1)),
       overlayImage |-> ExtractImageUrl(Index(data, 2)),
       diagnosis |-> diagnosis]

\* the value analyzeImage returns from its try block, lines 297-339
SuccessResult(variant, uri, predicted) ==
  LET data == IF Truthy(predicted) THEN predicted ELSE JArr(<<>>)
      diagnosis == DiagnosisOf(Index(data, 3))
  IN  [status |-> IF HasDetection(variant, diagnosis)
                    THEN "detected" ELSE "not_detected",
       imageUri |-> uri,
       boundingBoxes |-> <<>>,
       averageConfidence |-> Confidence(diagnosis),
       originalImage |-> ExtractImageUrl(Index(data, 0)),
       maskImage |-> ExtractImageUrl(Index(data, 1)),
       overlayImage |-> ExtractImageUrl(Index(data, 2)),
       diagnosis |-> diagnosis]

\* the message of what was caught, whatever was caught
ErrorText_MessageOnly(error) == error.message

\* error instanceof Error ? error.message : "Analysis failed. Please try again."
ErrorText(error) ==
  IF error.isError THEN error.message ELSE S_generic_failure

\* the value analyzeImage returns from its catch block, lines 340-360
ErrorResult(uri, error) ==
  [status |-> "error",
   imageUri |-> uri,
   boundingBoxes |-> <<>>,
   averageConfidence |-> [num |-> 0, den |-> 1],
   originalImage |-> <<>>,
   maskImage |-> <<>>,
   overlayImage |-> <<>>,
   diagnosis |-> S_Error_prefix \o ErrorText(error)]

NoResult ==
  [status |-> "none", imageUri |-> <<>>, boundingBoxes |-> <<>>,
   averageConfidence |-> [num |-> 0, den |-> 1], originalImage |-> <<>>,
   maskImage |-> <<>>, overlayImage |-> <<>>, diagnosis |-> <<>>]

(***************************************************************************)
(* What the environment can answer.  A response is a record: o is "throw"  *)
(* (fetch rejects), "notok" (a status outside 200-299, with the status and *)
(* the body text) or "ok"; json is what response.json() yields (t =        *)
(* "malformed": it throws) and body the lines of response.text().          *)
(***************************************************************************)
Response(o, status, text, json, ls) ==
  [o |-> o, status |-> status, text |-> text, json |-> json, body |-> ls]

JMalformed == JValue("malformed", <<>>, 0, <<>>, <<>>, <<>>)

Throws == Response("throw", <<>>, <<>>, JUndefined, <<>>)
NotOk(status, text) == Response("notok", status, text, JUndefined, <<>>)
OkJson(json) == Response("ok", <<>>, <<>>, json, <<>>)
OkText(ls) == Response("ok", <<>>, <<>>, JUndefined, ls)

Statuses == {S_500, S_404}
StatusText(status) ==
  IF status = S_500 THEN S_Internal_Server_Error ELSE S_Not_Found
\* the answers to POST /gradio_api/upload
UploadResponses ==
  {Throws}
    \cup {NotOk(st, StatusText(st)) : st \in Statuses}
    \cup {OkJson(j) : j \in {JArr(<<JStr(S_tmp_a)>>), JArr(<<>>), JNull, JMalformed}}

\* the answers to POST /gradio_api/call/predict; json stands for the value of
\* the event_id attribute of the object it yields
CallResponses ==
  {Throws}
    \cup {NotOk(st, StatusText(st)) : st \in Statuses}
    \cup {OkJson(j) : j \in {JStr(S_event_1), JStr(S_event_2), JUndefined, JMalformed}}

\* the diagnosis texts of the examples of the documentation
Text_detected_853 ==
  <<"P","n","e","u","m","o","t","h","o","r","a","x"," ","d","e","t","e","c","t",
    "e","d"," ","(","8","5",".","3","%",")">>
Text_none_green ==
  <<"N","o"," ","p","n","e","u","m","o","t","h","o","r","a","x"," ","d","e","t",
    "e","c","t","e","d"," ","U+D83D","U+DFE2">>
Text_result_negative ==
  <<"P","n","e","u","m","o","t","h","o","r","a","x"," ","r","e","s","u","l","t",
    ":"," ","n","e","g","a","t","i","v","e">>

SampleTexts == {Text_detected_853, Text_none_green, Text_result_negative}

\* the output of a job: the three image references and the diagnosis text
Output(text) ==
  JArr(<<JStr(S_tmp_a), JObj(S_data_resized, <<>>), JObj(<<>>, S_tmp_a),
         JStr(text)>>)

SampleOutputs == {Output(t) : t \in SampleTexts} \cup {JArr(<<>>)}

\* the lines a result stream is made of
SampleLines ==
  {Line(S_data_prefix, "object", d) : d \in SampleOutputs \cup {JUndefined}}
    \cup {Line(S_data_prefix, "array", Output(Text_result_negative)),
          Line(S_data_prefix, "malformed", JUndefined),
          Line(S_data_colon, "object", Output(Text_detected_853))}

RECURSIVE SeqsUpTo(_, _)
\* the sequences of at most n elements of S
SeqsUpTo(S, n) ==
  IF n = 0 THEN {<<>>}
  ELSE LET shorter == SeqsUpTo(S, n - 1)
       IN  shorter \cup {Append(q, x) : q \in shorter, x \in S}

\* the answers to GET /gradio_api/call/predict/{event_id}
ResultResponses ==
  {Throws}
    \cup {NotOk(st, StatusText(st)) : st \in Statuses}
    \cup {OkText(ls) : ls \in SeqsUpTo(SampleLines, MaxLines)}

\* the resize step: what the canvas or the image manipulator gives
ResizeOutcomes(web) ==
  IF web
    THEN {[ok |-> TRUE, uri |-> S_data_resized, err |-> NoError],
          [ok |-> FALSE, uri |-> <<>>, err |-> Err(S_Failed_to_load, "resizeImage")]}
    ELSE {[ok |-> TRUE, uri |-> S_file_resized, err |-> NoError],
          [ok |-> FALSE, uri |-> <<>>,
           err |-> Err(S_Image_manipulation_failed, "resizeImage")]}

\* reading the image for the inline encoding: fetch(imageUri), blob(), FileReader
ReadOutcomes == {"ok", "fetch_throws", "reader_error"}

ImageUris == {S_file_xray, S_data_image}

(***************************************************************************)
(* The state of one analyzeImage call, and of a second call that waits at  *)
(* one of its awaits while the first one runs.  The module has no variable *)
(* of its own: API_BASE, TARGET_SIZE and isWeb are constants.              *)
(***************************************************************************)
VARIABLES
  variant,          \* which analyzeImage runs: "resize" or "plain"
  isWeb,            \* Platform.OS === "web"
  imageUri,         \* the argument of analyzeImage
  pc,               \* where the call stands
  resizedImageUri,  \* resizedImageUri of analyzeImage
  filePath,         \* filePath of analyzeImage, the upload's result
  eventId,          \* eventId of predictWithGradioAPI / predictWithBase64
  base64,           \* base64 of predictWithBase64
  uploadError,      \* what the inner catch caught
  error,            \* what the outer catch caught
  lines,            \* lines of predictWithGradioAPI / predictWithBase64
  prediction,       \* the data of prediction of analyzeImage
  ret,              \* the value the promise of analyzeImage resolved to
  requests,         \* the requests issued so far, in order
  current,          \* which of two calls of analyzeImage is running: 1 or 2
  other,            \* the variables of the call that is waiting
  screen,           \* the screen the router shows
  summary,          \* the title of the summary card of the result screen
  history,          \* the history state of AnalysisProvider: ids, newest first
  closure,          \* the history the callbacks of the last render closed over
  storage,          \* what AsyncStorage holds under HISTORY_STORAGE_KEY
  writes,           \* the writes to storage that are awaited
  calls             \* the calls of the history callbacks so far, in order

vars ==
  <<variant, isWeb, imageUri, pc, resizedImageUri, filePath, eventId, base64,
    lines, uploadError, error, prediction, ret, requests, current, other,
    screen, summary, history, closure, storage, writes, calls>>

\* the variables of the history store
historyVars == <<history, closure, storage, writes, calls>>

\* the variables of the analysis and of the screens
analysisVars ==
  <<variant, isWeb, imageUri, pc, resizedImageUri, filePath, eventId, base64,
    lines, uploadError, error, prediction, ret, requests, current, other,
    screen, summary>>

\* what AsyncStorage.getItem gives: null when the key is absent, else the
\* list that was written
StorageAbsent == [present |-> FALSE, items |-> <<>>]
Stored(h) == [present |-> TRUE, items |-> h]

\* a call of a callback of the history store
HistoryCall(op, id) == [op |-> op, id |-> id]

\* the ids of the items added so far: generateId gives each result its own
AddedIds == {calls[i].id : i \in {j \in 1..Len(calls) : calls[j].op = "add"}}

\* the id of the next result
NewId == Cardinality(AddedIds) + 1

\* a request: what is asked, the function that asks, and the file reference,
\* image or event id it carries
Request(kind, by, arg) == [kind |-> kind, by |-> by, arg |-> arg]

\* the image the transport functions are given
TransportUri == IF variant = "resize" THEN resizedImageUri ELSE imageUri

\* the variables of the running call
CallState ==
  [imageUri |-> imageUri, pc |-> pc, resizedImageUri |-> resizedImageUri,
   filePath |-> filePath, eventId |-> eventId, base64 |-> base64,
   lines |-> lines, uploadError |-> uploadError, error |-> error,
   prediction |-> prediction, ret |-> ret, requests |-> requests]

\* the variables of a call of analyzeImage(uri) that has not started
IdleCall(uri) ==
  [imageUri |-> uri, pc |-> "idle", resizedImageUri |-> <<>>,
   filePath |-> JUndefined, eventId |-> JUndefined, base64 |-> <<>>,
   lines |-> <<>>, uploadError |-> NoError, error |-> NoError,
   prediction |-> JUndefined, ret |-> NoResult, requests |-> <<>>]

\* one call of analyzeImage is about to start
InitCall ==
  /\ variant \in {"resize", "plain"}
  /\ isWeb \in (IF variant = "resize" THEN BOOLEAN ELSE {FALSE})
  /\ imageUri \in ImageUris
  /\ pc = "idle"
  /\ resizedImageUri = <<>>
  /\ filePath = JUndefined
  /\ eventId = JUndefined
  /\ base64 = <<>>
  /\ lines = <<>>
  /\ uploadError = NoError
  /\ error = NoError
  /\ prediction = JUndefined
  /\ ret = NoResult
  /\ requests = <<>>
  /\ current = 1
  /\ screen = "analyzing"
  /\ summary = "none"
  /\ history = <<>>
  /\ closure = <<>>
  /\ storage = StorageAbsent
  /\ writes = {}
  /\ calls = <<>>

\* a second call with the same image is about to start as well
Init == InitCall /\ other = IdleCall(imageUri)

(***************************************************************************)
(* Leaving the try blocks of analyzeImage.  The locals of the functions    *)
(* that have returned or thrown are reset.                                 *)
(***************************************************************************)
\* the synchronous start of predictWithBase64: an image that already is a
\* data URL is used as it is (resizing variant), any other image is read first
PredictWithBase64_Start ==
  IF variant = "resize" /\ StartsWith(TransportUri, S_data_colon)
    THEN pc' = "b64call" /\ base64' = TransportUri
    ELSE pc' = "b64read" /\ base64' = <<>>

\* a catch block that throws the failure on instead of returning a result
OuterCatch_Rethrows(err) ==
  /\ error' = err
  /\ pc' = "rejected"
  /\ filePath' = JUndefined
  /\ eventId' = JUndefined
  /\ base64' = <<>>
  /\ lines' = <<>>
  /\ UNCHANGED <<resizedImageUri, uploadError, ret, prediction>>

\* a catch block that reports the first failure of the call, not the last
OuterCatch_ReportsFirstFailure(err) ==
  /\ error' = err
  /\ ret' = ErrorResult(imageUri, IF uploadError # NoError THEN uploadError ELSE err)
  /\ pc' = "returned"
  /\ filePath' = JUndefined
  /\ eventId' = JUndefined
  /\ base64' = <<>>
  /\ lines' = <<>>
  /\ UNCHANGED <<resizedImageUri, uploadError, prediction>>

\* a catch block that tries the inline encoding again instead of returning
\* the error result
OuterCatch_RetriesInline(err) ==
  /\ error' = err
  /\ PredictWithBase64_Start
  /\ filePath' = JUndefined
  /\ eventId' = JUndefined
  /\ lines' = <<>>
  /\ UNCHANGED <<resizedImageUri, uploadError, ret, prediction>>

\* catch (error): the error result is returned
OuterCatch(err) ==
  /\ error' = err
  /\ ret' = ErrorResult(imageUri, err)
  /\ pc' = "returned"
  /\ filePath' = JUndefined
  /\ eventId' = JUndefined
  /\ base64' = <<>>
  /\ lines' = <<>>
  /\ UNCHANGED <<resizedImageUri, uploadError, prediction>>

\* an inner catch that gives up instead of trying the inline encoding
InnerCatch_NoFallback(err) ==
  /\ error' = err
  /\ ret' = ErrorResult(imageUri, err)
  /\ pc' = "returned"
  /\ filePath' = JUndefined
  /\ eventId' = JUndefined
  /\ base64' = <<>>
  /\ lines' = <<>>
  /\ UNCHANGED <<resizedImageUri, uploadError, prediction>>

\* an inner catch that tries the upload a second time before the inline encoding
InnerCatch_RetriesUpload(err) ==
  /\ uploadError' = err
  /\ IF uploadError = NoError
       THEN pc' = "upload" /\ base64' = <<>>
       ELSE PredictWithBase64_Start
  /\ filePath' = JUndefined
  /\ eventId' = JUndefined
  /\ lines' = <<>>
  /\ UNCHANGED <<resizedImageUri, error, ret, prediction>>

\* catch (uploadError): the failure is logged and predictWithBase64 is called
InnerCatch(err) ==
  /\ uploadError' = err
  /\ PredictWithBase64_Start
  /\ filePath' = JUndefined
  /\ eventId' = JUndefined
  /\ lines' = <<>>
  /\ UNCHANGED <<resizedImageUri, error, ret, prediction>>

\* predictWithGradioAPI or predictWithBase64 returns { data } and analyzeImage
\* assigns it to prediction
PredictionReturned(data) ==
  /\ prediction' = data
  /\ pc' = "parsed"
  /\ filePath' = JUndefined
  /\ eventId' = JUndefined
  /\ base64' = <<>>
  /\ UNCHANGED <<resizedImageUri, lines, uploadError, error, ret>>

(***************************************************************************)
(* The steps of one call, one for each awaited operation.                  *)
(***************************************************************************)
\* analyzeImage is called
AnalyzeImage ==
  /\ pc = "idle"
  /\ pc' = IF variant = "resize" THEN "resize" ELSE "upload"
  /\ UNCHANGED <<variant, isWeb, imageUri, resizedImageUri, filePath, eventId,
                 base64, uploadError, error, ret, requests, prediction, lines,
                 current, other, screen, summary>>
  /\ UNCHANGED historyVars

\* a resize step whose failure is ignored: the call goes on with the image it
\* was given
ResizeImage_FallsBackToOriginal ==
  /\ pc = "resize"
  /\ \E o \in ResizeOutcomes(isWeb) :
       /\ resizedImageUri' = (IF o.ok THEN o.uri ELSE imageUri)
       /\ pc' = "upload"
       /\ UNCHANGED <<filePath, eventId, base64, uploadError, error, ret,
                      prediction, lines>>
  /\ UNCHANGED <<variant, isWeb, imageUri, requests, current, other, screen,
                 summary>>
  /\ UNCHANGED historyVars

\* await resizeImage(imageUri)
ResizeImage ==
  /\ pc = "resize"
  /\ \E o \in ResizeOutcomes(isWeb) :
       IF o.ok
         THEN /\ resizedImageUri' = o.uri
              /\ pc' = "upload"
              /\ UNCHANGED <<filePath, eventId, base64, uploadError, error, ret,
                             prediction, lines>>
         ELSE OuterCatch(o.err)
  /\ UNCHANGED <<variant, isWeb, imageUri, requests, current, other, screen,
                 summary>>
  /\ UNCHANGED historyVars

\* an upload without the test of uploadResponse.ok: the body is parsed
\* whatever the status
UploadImageToGradio_IgnoresStatus(responses) ==
  /\ pc = "upload"
  /\ \E blobOk \in (IF variant = "resize" /\ isWeb
                       /\ ~StartsWith(TransportUri, S_data_colon)
                    THEN BOOLEAN ELSE {TRUE}) :
       IF ~blobOk
         THEN /\ requests' = Append(requests,
                   Request("read", "uploadImageToGradio", JStr(TransportUri)))
              /\ InnerCatch(Err(S_Network_request_failed, "uploadImageToGradio"))
         ELSE \E r \in responses :
           /\ requests' = Append(requests,
                Request("upload", "uploadImageToGradio", JStr(TransportUri)))
           /\ CASE r.o = "throw" ->
                     InnerCatch(Err(S_Network_request_failed, "uploadImageToGradio"))
                [] r.o # "throw" /\ r.json.t = "malformed" ->
                     InnerCatch(Err(S_JSON_Parse_error, "uploadImageToGradio"))
                [] r.o # "throw" /\ r.json.t \in {"null", "undefined"} ->
                     InnerCatch(Err(S_Cannot_read_property, "uploadImageToGradio"))
                [] OTHER ->
                     /\ filePath' = Index(r.json, 0)
                     /\ pc' = "call"
                     /\ UNCHANGED <<resizedImageUri, eventId, base64, uploadError,
                                    error, ret, prediction, lines>>
  /\ UNCHANGED <<variant, isWeb, imageUri, current, other, screen, summary>>
  /\ UNCHANGED historyVars

\* uploadImageToGradio: on the web an image that is no data URL is fetched
\* first; then the upload request and what is made of its answer
UploadImageToGradio(responses) ==
  /\ pc = "upload"
  /\ \E blobOk \in (IF variant = "resize" /\ isWeb
                       /\ ~StartsWith(TransportUri, S_data_colon)
                    THEN BOOLEAN ELSE {TRUE}) :
       IF ~blobOk
         THEN /\ requests' = Append(requests,
                   Request("read", "uploadImageToGradio", JStr(TransportUri)))
              /\ InnerCatch(Err(S_Network_request_failed, "uploadImageToGradio"))
         ELSE \E r \in responses :
           /\ requests' = Append(requests,
                Request("upload", "uploadImageToGradio", JStr(TransportUri)))
           /\ CASE r.o = "throw" ->
                     InnerCatch(Err(S_Network_request_failed, "uploadImageToGradio"))
                [] r.o = "notok" ->
                     InnerCatch(Err(S_Upload_failed \o r.status \o S_dash \o r.text,
                                    "uploadImageToGradio"))
                [] r.o = "ok" /\ r.json.t = "malformed" ->
                     InnerCatch(Err(S_JSON_Parse_error, "uploadImageToGradio"))
                [] r.o = "ok" /\ r.json.t \in {"null", "undefined"} ->
                     InnerCatch(Err(S_Cannot_read_property, "uploadImageToGradio"))
                [] OTHER ->
                     /\ filePath' = Index(r.json, 0)
                     /\ pc' = "call"
                     /\ UNCHANGED <<resizedImageUri, eventId, base64, uploadError,
                                    error, ret, prediction, lines>>
  /\ UNCHANGED <<variant, isWeb, imageUri, current, other, screen, summary>>
  /\ UNCHANGED historyVars

\* predictWithGradioAPI up to the event id: the job-creation request
PredictWithGradioAPI_Call(responses) ==
  /\ pc = "call"
  /\ \E r \in responses :
       /\ requests' = Append(requests,
            Request("call", "predictWithGradioAPI", filePath))
       /\ CASE r.o = "throw" ->
                 InnerCatch(Err(S_Network_request_failed, "predictWithGradioAPI"))
            [] r.o = "notok" ->
                 InnerCatch(Err(S_Call_predict_failed \o r.status \o S_dash \o r.text,
                                "predictWithGradioAPI"))
            [] r.o = "ok" /\ r.json.t = "malformed" ->
                 InnerCatch(Err(S_JSON_Parse_error, "predictWithGradioAPI"))
            [] OTHER ->
                 /\ eventId' = r.json
                 /\ pc' = "result"
                 /\ UNCHANGED <<resizedImageUri, filePath, base64, uploadError,
                                error, ret, prediction, lines>>
  /\ UNCHANGED <<variant, isWeb, imageUri, current, other, screen, summary>>
  /\ UNCHANGED historyVars

\* predictWithGradioAPI from the event id on: the result request and the
\* lines of its body
PredictWithGradioAPI_Result(responses) ==
  /\ pc = "result"
  /\ \E r \in responses :
       /\ requests' = Append(requests,
            Request("result", "predictWithGradioAPI", eventId))
       /\ CASE r.o = "throw" ->
                 InnerCatch(Err(S_Network_request_failed, "predictWithGradioAPI"))
            [] r.o = "notok" ->
                 InnerCatch(Err(S_Result_fetch_failed \o r.status,
                                "predictWithGradioAPI"))
            [] OTHER ->
                 /\ lines' = r.body
                 /\ pc' = "parse"
                 /\ UNCHANGED <<resizedImageUri, filePath, eventId, base64,
                                uploadError, error, ret, prediction>>
  /\ UNCHANGED <<variant, isWeb, imageUri, current, other, screen, summary>>
  /\ UNCHANGED historyVars

\* a parsing loop that fetches the result a second time when the first
\* stream has no result
PredictWithGradioAPI_Parse_PollsAgain ==
  /\ pc = "parse"
  /\ LET p == ParseGradio(lines) IN
       IF p = 0
         THEN IF Cardinality({i \in 1..Len(requests) :
                                requests[i].kind = "result"}) < 2
                THEN /\ pc' = "result"
                     /\ lines' = <<>>
                     /\ UNCHANGED <<resizedImageUri, filePath, eventId, base64,
                                    uploadError, error, ret, prediction>>
                ELSE InnerCatch(Err(S_No_valid_result, "predictWithGradioAPI"))
         ELSE PredictionReturned(lines[p].v)
  /\ UNCHANGED <<variant, isWeb, imageUri, requests, current, other, screen,
                 summary>>
  /\ UNCHANGED historyVars

\* a parsing loop whose failure is not caught by the inner catch: the call
\* ends with the error result instead of trying the inline encoding
PredictWithGradioAPI_Parse_NoFallback ==
  /\ pc = "parse"
  /\ LET p == ParseGradio(lines) IN
       IF p = 0
         THEN OuterCatch(Err(S_No_valid_result, "predictWithGradioAPI"))
         ELSE PredictionReturned(lines[p].v)
  /\ UNCHANGED <<variant, isWeb, imageUri, requests, current, other, screen,
                 summary>>
  /\ UNCHANGED historyVars

\* predictWithGradioAPI: the parsing loop
PredictWithGradioAPI_Parse ==
  /\ pc = "parse"
  /\ LET p == ParseGradio(lines) IN
       IF p = 0
         THEN InnerCatch(Err(S_No_valid_result, "predictWithGradioAPI"))
         ELSE PredictionReturned(lines[p].v)
  /\ UNCHANGED <<variant, isWeb, imageUri, requests, current, other, screen,
                 summary>>
  /\ UNCHANGED historyVars

\* FileReader.readAsDataURL of the image
ReadAsDataURL(uri) ==
  IF StartsWith(uri, S_data_colon) THEN uri
  ELSE IF uri = S_file_resized THEN S_data_resized ELSE S_data_image

\* predictWithBase64: fetch(imageUri), blob() and the FileReader
PredictWithBase64_Read ==
  /\ pc = "b64read"
  /\ requests' = Append(requests,
       Request("read", "predictWithBase64", JStr(TransportUri)))
  /\ \E o \in ReadOutcomes :
       CASE o = "fetch_throws" ->
              OuterCatch(Err(S_Network_request_failed, "predictWithBase64"))
         [] o = "reader_error" ->
              OuterCatch(NonErr("predictWithBase64"))
         [] OTHER ->
              /\ base64' = ReadAsDataURL(TransportUri)
              /\ pc' = "b64call"
              /\ UNCHANGED <<resizedImageUri, filePath, eventId, uploadError,
                             error, ret, prediction, lines>>
  /\ UNCHANGED <<variant, isWeb, imageUri, current, other, screen, summary>>
  /\ UNCHANGED historyVars

\* a job creation of the inline path that polls a fixed event id instead of
\* callResult.event_id
PredictWithBase64_Call_FixedEventId(responses) ==
  /\ pc = "b64call"
  /\ \E r \in responses :
       /\ requests' = Append(requests,
            Request("call", "predictWithBase64", JStr(base64)))
       /\ CASE r.o = "throw" ->
                 OuterCatch(Err(S_Network_request_failed, "predictWithBase64"))
            [] r.o = "notok" ->
                 OuterCatch(Err(S_Base64_call_failed \o r.status \o S_dash \o r.text,
                                "predictWithBase64"))
            [] r.o = "ok" /\ r.json.t = "malformed" ->
                 OuterCatch(Err(S_JSON_Parse_error, "predictWithBase64"))
            [] OTHER ->
                 /\ eventId' = JStr(S_event_1)
                 /\ pc' = "b64result"
                 /\ UNCHANGED <<resizedImageUri, filePath, base64, uploadError,
                                error, ret, prediction, lines>>
  /\ UNCHANGED <<variant, isWeb, imageUri, current, other, screen, summary>>
  /\ UNCHANGED historyVars

\* predictWithBase64: the job-creation request with the inline image
PredictWithBase64_Call(responses) ==
  /\ pc = "b64call"
  /\ \E r \in responses :
       /\ requests' = Append(requests,
            Request("call", "predictWithBase64", JStr(base64)))
       /\ CASE r.o = "throw" ->
                 OuterCatch(Err(S_Network_request_failed, "predictWithBase64"))
            [] r.o = "notok" ->
                 OuterCatch(Err(S_Base64_call_failed \o r.status \o S_dash \o r.text,
                                "predictWithBase64"))
            [] r.o = "ok" /\ r.json.t = "malformed" ->
                 OuterCatch(Err(S_JSON_Parse_error, "predictWithBase64"))
            [] OTHER ->
                 /\ eventId' = r.json
                 /\ pc' = "b64result"
                 /\ UNCHANGED <<resizedImageUri, filePath, base64, uploadError,
                                error, ret, prediction, lines>>
  /\ UNCHANGED <<variant, isWeb, imageUri, current, other, screen, summary>>
  /\ UNCHANGED historyVars

\* predictWithBase64: the result request and the lines of its body
PredictWithBase64_Result(responses) ==
  /\ pc = "b64result"
  /\ \E r \in responses :
       /\ requests' = Append(requests,
            Request("result", "predictWithBase64", eventId))
       /\ CASE r.o = "throw" ->
                 OuterCatch(Err(S_Network_request_failed, "predictWithBase64"))
            [] r.o = "notok" ->
                 OuterCatch(Err(S_Base64_result_fetch_failed \o r.status,
                                "predictWithBase64"))
            [] OTHER ->
                 /\ lines' = r.body
                 /\ pc' = "b64parse"
                 /\ UNCHANGED <<resizedImageUri, filePath, eventId, base64,
                                uploadError, error, ret, prediction>>
  /\ UNCHANGED <<variant, isWeb, imageUri, current, other, screen, summary>>
  /\ UNCHANGED historyVars

\* predictWithBase64: the parsing loop
PredictWithBase64_Parse ==
  /\ pc = "b64parse"
  /\ LET p == ParseBase64(lines) IN
       IF p = 0
         THEN OuterCatch(Err(S_No_valid_base64, "predictWithBase64"))
         ELSE PredictionReturned(lines[p].v)
  /\ UNCHANGED <<variant, isWeb, imageUri, requests, current, other, screen,
                 summary>>
  /\ UNCHANGED historyVars

\* analyzeImage interprets the prediction: the image references, the
\* diagnosis, hasDetection and confidence are computed from it (lines 297-324)
InterpretPrediction ==
  /\ pc = "parsed"
  /\ pc' = "interpreted"
  /\ lines' = <<>>
  /\ UNCHANGED <<variant, isWeb, imageUri, resizedImageUri, filePath, eventId,
                 base64, uploadError, error, prediction, ret, requests, current,
                 other, screen, summary>>
  /\ UNCHANGED historyVars

\* analyzeImage assembles the result and returns it (lines 326-339)
ReturnResult ==
  /\ pc = "interpreted"
  /\ ret' = SuccessResult(variant, imageUri, prediction)
  /\ pc' = "returned"
  /\ UNCHANGED <<variant, isWeb, imageUri, resizedImageUri, filePath, eventId,
                 base64, lines, uploadError, error, prediction, requests,
                 current, other, screen, summary>>
  /\ UNCHANGED historyVars

\* a mutable module variable in place of the local eventId: the call that is
\* resumed finds the event id the other call left there
SwitchCall_SharedEventId ==
  /\ current' = 3 - current
  /\ other' = CallState
  /\ imageUri' = other.imageUri
  /\ pc' = other.pc
  /\ resizedImageUri' = other.resizedImageUri
  /\ filePath' = other.filePath
  /\ base64' = other.base64
  /\ lines' = other.lines
  /\ uploadError' = other.uploadError
  /\ error' = other.error
  /\ prediction' = other.prediction
  /\ ret' = other.ret
  /\ requests' = other.requests
  /\ UNCHANGED <<variant, isWeb, eventId, screen, summary>>
  /\ UNCHANGED historyVars

\* the running call waits at its await and the other call goes on from its
\* own: each call has its own locals, log and result
SwitchCall ==
  /\ current' = 3 - current
  /\ other' = CallState
  /\ imageUri' = other.imageUri
  /\ pc' = other.pc
  /\ resizedImageUri' = other.resizedImageUri
  /\ filePath' = other.filePath
  /\ eventId' = other.eventId
  /\ base64' = other.base64
  /\ lines' = other.lines
  /\ uploadError' = other.uploadError
  /\ error' = other.error
  /\ prediction' = other.prediction
  /\ ret' = other.ret
  /\ requests' = other.requests
  /\ UNCHANGED <<variant, isWeb, screen, summary>>
  /\ UNCHANGED historyVars

Next ==
  \/ AnalyzeImage
  \/ ResizeImage
  \/ UploadImageToGradio(UploadResponses)
  \/ PredictWithGradioAPI_Call(CallResponses)
  \/ PredictWithGradioAPI_Result(ResultResponses)
  \/ PredictWithGradioAPI_Parse
  \/ PredictWithBase64_Read
  \/ PredictWithBase64_Call(CallResponses)
  \/ PredictWithBase64_Result(ResultResponses)
  \/ PredictWithBase64_Parse
  \/ InterpretPrediction
  \/ ReturnResult

Spec == Init /\ [][Next]_vars

(***************************************************************************)
(* The diagnosis texts the interpreter is checked on: the fragments the    *)
(* classification and the confidence extraction look for, in both letter   *)
(* cases, concatenated in every order.                                     *)
(***************************************************************************)
KeywordFragments ==
  {<<"N","o"," ">>,
   <<"P","n","e","u","m","o","t","h","o","r","a","x">>,
   <<" ","d","e","t","e","c","t","e","d">>,
   <<" ","n","o","t">>,
   <<" ","N","E","G","A","T","I","V","E">>,
   <<" ","P","o","s","i","t","i","v","e">>,
   RedGlyph,
   GreenGlyph,
   RedLiteralResize,
   GreenLiteralResize}

NumberFragments ==
  {<<"8","5">>, <<".","3">>, <<" ">>, <<"%">>, <<"x">>}

RECURSIVE Concatenations(_, _)
\* the concatenations of at most n elements of the set S of strings
Concatenations(S, n) ==
  IF n = 0 THEN {<<>>}
  ELSE LET shorter == Concatenations(S, n - 1)
       IN  shorter \cup {q \o x : q \in shorter, x \in S}

DiagnosisTexts ==
  Concatenations(KeywordFragments, MaxFrags)
    \cup Concatenations(NumberFragments, MaxNumFrags)
    \cup {p \o b \o q :
            p \in KeywordFragments \cup {<<>>}, b \in SampleTexts,
            q \in KeywordFragments \cup {<<>>}}

\* answers that let both the upload path and the inline path through
UploadResponsesDiagnosis ==
  {NotOk(S_500, StatusText(S_500)), OkJson(JArr(<<JStr(S_tmp_a)>>))}

CallResponsesDiagnosis == {OkJson(JStr(S_event_1))}

ResultResponsesDiagnosis ==
  {OkText(<<Line(S_data_prefix, "object", Output(t))>>) : t \in DiagnosisTexts}

InitDiagnosis == Init /\ imageUri = S_file_xray

NextDiagnosis ==
  \/ AnalyzeImage
  \/ ResizeImage
  \/ UploadImageToGradio(UploadResponsesDiagnosis)
  \/ PredictWithGradioAPI_Call(CallResponsesDiagnosis)
  \/ PredictWithGradioAPI_Result(ResultResponsesDiagnosis)
  \/ PredictWithGradioAPI_Parse
  \/ PredictWithBase64_Read
  \/ PredictWithBase64_Call(CallResponsesDiagnosis)
  \/ PredictWithBase64_Result(ResultResponsesDiagnosis)
  \/ PredictWithBase64_Parse
  \/ InterpretPrediction
  \/ ReturnResult

\* the calls whose job output carries any of the diagnosis texts
SpecDiagnosis == InitDiagnosis /\ [][NextDiagnosis]_vars

(***************************************************************************)
(* Properties of the control flow of analyzeImage.                         *)
(***************************************************************************)
Returned == pc = "returned"

\* the call returned from its try block
Succeeded == Returned /\ error = NoError

\* the inner catch ran: a step of the upload path failed
UploadPathFailed == uploadError # NoError

\* the requests a function issued, in order
RequestsBy(fs) == SelectSeq(requests, LAMBDA r : r.by \in fs)

UploadPathFunctions == {"uploadImageToGradio", "predictWithGradioAPI"}
InlinePathFunctions == {"predictWithBase64"}

\* how many requests of a kind a set of functions issued
CountOf(kind, fs) ==
  Cardinality({i \in 1..Len(requests) :
                 requests[i].kind = kind /\ requests[i].by \in fs})

\* C1: analyzeImage never throws: whatever the resize, upload, job-creation,
\* result-fetch and stream-parse steps do, the call is at one of its awaits or
\* has resolved, and when it has resolved the status of its result is one of
\* detected, not_detected and error; a caught failure always ends in a result.
C1_NeverThrows ==
  /\ pc \in {"idle", "resize", "upload", "call", "result",
             "parse", "b64read", "b64call", "b64result", "b64parse",
             "parsed", "interpreted", "returned"}
  /\ Returned => ret.status \in {"detected", "not_detected", "error"}
  /\ ~Returned => ret = NoResult
  /\ error # NoError => Returned /\ ret.status = "error"

\* both paths failed and the call still resolved, to an error result
C1_Witness ==
  /\ Returned
  /\ ret.status = "error"
  /\ UploadPathFailed
  /\ error.from = "predictWithBase64"

\* C2: once a step of the upload path has failed the call goes on with the
\* inline attempt (it never returns before a request of predictWithBase64 was
\* issued), and when the inline attempt succeeds the status of the result is
\* detected or not_detected, never error.
C2_FallbackAfterUploadFailure ==
  /\ UploadPathFailed =>
       /\ pc \in {"b64read", "b64call", "b64result", "b64parse", "parsed",
                  "interpreted", "returned"}
       /\ Returned => Len(RequestsBy(InlinePathFunctions)) >= 1
       /\ Succeeded => ret.status \in {"detected", "not_detected"}
  /\ Returned /\ ret.status = "error" /\ requests # <<>> =>
       /\ UploadPathFailed
       /\ requests[Len(requests)].by \in InlinePathFunctions

\* the result fetch of the upload path failed, the inline attempt succeeded
C2_Witness ==
  /\ Succeeded
  /\ uploadError.from = "predictWithGradioAPI"
  /\ StartsWith(uploadError.message, S_Result_fetch_failed)
  /\ ret.status = "not_detected"
  /\ \E i \in 1..Len(requests) :
       requests[i].kind = "result" /\ requests[i].by = "predictWithBase64"

\* C3: when both paths failed the status is error and the diagnosis is
\* "Error: " followed by the message of the failure of the inline path (the
\* fixed text when what was thrown there is no Error); the message of the
\* failure of the upload path, when it is another one, is in no field of the
\* result.
C3_InlineFailureReported ==
  Returned /\ UploadPathFailed /\ error # NoError =>
    /\ ret.status = "error"
    /\ error.from \in InlinePathFunctions
    /\ uploadError.from \in UploadPathFunctions
    /\ error.isError => ret.diagnosis = S_Error_prefix \o error.message
    /\ ~error.isError => ret.diagnosis = S_Error_prefix \o S_generic_failure
    /\ ErrorText(uploadError) # ErrorText(error) =>
         \A f \in {ret.diagnosis, ret.originalImage, ret.maskImage,
                   ret.overlayImage, ret.imageUri} :
           ~Includes(f, uploadError.message)

\* the upload answered 500 and the job creation of the inline path 404
C3_Witness ==
  /\ Returned
  /\ uploadError.message = S_Upload_failed \o S_500 \o S_dash \o S_Internal_Server_Error
  /\ error.message = S_Base64_call_failed \o S_404 \o S_dash \o S_Not_Found
  /\ ret.diagnosis = S_Error_prefix \o error.message

\* the state part of C4
C4_Requests ==
  /\ \A k \in {"read", "upload", "call", "result"} :
       /\ CountOf(k, UploadPathFunctions) <= 1
       /\ CountOf(k, InlinePathFunctions) <= 1
  /\ Len(RequestsBy(InlinePathFunctions)) >= 1 => UploadPathFailed
  /\ \A i, j \in 1..Len(requests) :
       requests[i].by \in InlinePathFunctions
         /\ requests[j].by \in UploadPathFunctions => j < i
  /\ Returned /\ ~UploadPathFailed => RequestsBy(InlinePathFunctions) = <<>>

\* C4: in one call each request of the upload path and each request of the
\* inline path is issued at most once; a request of the inline path is issued
\* only after a step of the upload path failed, and after every request of the
\* upload path; none is issued when the upload path succeeded; and once the
\* inline attempt has failed (the outer catch ran) no request is issued.
C4_SingleFallback ==
  /\ []C4_Requests
  /\ [][(error # NoError \/ Returned) => requests' = requests]_vars

\* the upload path issued its three requests, then the inline path its three,
\* and the last of them failed
C4_Witness ==
  /\ Returned
  /\ error.from = "predictWithBase64"
  /\ Len(RequestsBy(UploadPathFunctions)) = 3
  /\ Len(RequestsBy(InlinePathFunctions)) = 3
  /\ ret.status = "error"

\* C5: a result with status error has no bounding boxes, confidence 0, three
\* empty image URLs and a diagnosis that starts with "Error: "; when what was
\* caught is no Error (it has no message) the diagnosis is exactly
\* "Error: Analysis failed. Please try again.".
C5_ErrorResultShape ==
  Returned /\ ret.status = "error" =>
    /\ ret.boundingBoxes = <<>>
    /\ ret.averageConfidence.num = 0
    /\ ret.originalImage = <<>>
    /\ ret.maskImage = <<>>
    /\ ret.overlayImage = <<>>
    /\ StartsWith(ret.diagnosis, S_Error_prefix)
    /\ error # NoError
    /\ ~error.isError => ret.diagnosis = S_Error_prefix \o S_generic_failure
    /\ error.isError => ret.diagnosis # S_Error_prefix \o S_generic_failure

\* the FileReader of the inline path failed: what is caught is no Error
C5_Witness ==
  /\ Returned
  /\ ret.status = "error"
  /\ ~error.isError
  /\ error.from = "predictWithBase64"
  /\ ret.diagnosis = S_Error_prefix \o S_generic_failure

(***************************************************************************)
(* Properties of the result interpreter.                                   *)
(***************************************************************************)
\* the lower-cased diagnosis of the returned result contains t
DiagHas(t) == Includes(ToLowerCase(ret.diagnosis), t)

\* C6: for the diagnosis text "No pneumothorax detected" followed by the green
\* glyph, a successful analysis has status not_detected and confidence 0.
C6_NoPneumothoraxDetectedGreen ==
  Succeeded /\ ret.diagnosis = Text_none_green =>
    /\ ret.status = "not_detected"
    /\ ret.averageConfidence.num = 0

\* C7: for every diagnosis text that contains "pneumothorax" and "negative",
\* in any letter case, the status of a successful analysis is not_detected.
C7_NegativeOverrides ==
  Succeeded /\ DiagHas(S_pneumothorax) /\ DiagHas(S_negative) =>
    ret.status = "not_detected"

\* the classification C8 states, for a text without indicator glyph
KeywordsSayDetected ==
  \/ DiagHas(S_pneumothorax_detected)
  \/ DiagHas(S_positive)
  \/ /\ DiagHas(S_pneumothorax)
     /\ ~DiagHas(S_no_pneumothorax)
     /\ ~DiagHas(S_not_detected)
     /\ ~DiagHas(S_negative)

\* C8: for a successful analysis whose diagnosis text contains neither
\* indicator glyph, the status is detected exactly when the lower-cased text
\* contains "pneumothorax detected" or "positive", or contains "pneumothorax"
\* and none of "no pneumothorax", "not detected", "negative", and is
\* not_detected otherwise; a text containing "Pneumothorax detected (85.3%)"
\* gives detected.
C8_KeywordClassification ==
  Succeeded =>
    /\ ~Includes(ret.diagnosis, RedGlyph) /\ ~Includes(ret.diagnosis, GreenGlyph) =>
         /\ KeywordsSayDetected => ret.status = "detected"
         /\ ~KeywordsSayDetected => ret.status = "not_detected"
    /\ Includes(ret.diagnosis, Text_detected_853) => ret.status = "detected"

\* "Pneumothorax" alone, in upper case, with no negation term: detected
C8_Witness ==
  /\ Succeeded
  /\ ret.status = "detected"
  /\ DiagHas(S_pneumothorax)
  /\ ~DiagHas(S_pneumothorax_detected)
  /\ ~DiagHas(S_positive)
  /\ ~Includes(ret.diagnosis, RedGlyph)
  /\ ~Includes(ret.diagnosis, GreenGlyph)

\* C9: in both variants of analyzeImage a diagnosis text with the red glyph
\* gives detected, and a text with "pneumothorax" and the green glyph, without
\* "pneumothorax detected", "positive" and the red glyph, gives not_detected.
C9_GlyphsClassify ==
  Succeeded =>
    /\ Includes(ret.diagnosis, RedGlyph) => ret.status = "detected"
    /\ /\ DiagHas(S_pneumothorax)
       /\ Includes(ret.diagnosis, GreenGlyph)
       /\ ~DiagHas(S_pneumothorax_detected)
       /\ ~DiagHas(S_positive)
       /\ ~Includes(ret.diagnosis, RedGlyph)
       => ret.status = "not_detected"

\* s[i..e] is a number: digits, or digits, a point and digits
IsNumeral(s, i, e) ==
  \E k \in i..e :
    /\ \A j \in i..k : s[j] \in Digits
    /\ \/ k = e
       \/ /\ k + 2 <= e
          /\ s[k + 1] = "."
          /\ \A j \in (k + 2)..e : s[j] \in Digits

\* a percent sign follows position e, at once or (gap) after white space
PercentFollows(s, e, gap) ==
  \E p \in (e + 1)..Len(s) :
    /\ s[p] = "%"
    /\ \A j \in (e + 1)..(p - 1) : s[j] \in WhiteSpace
    /\ gap \/ p = e + 1

\* the ends of the numbers that start at i and that a percent sign follows
PercentNumbersAt(s, i, gap) ==
  IF s[i] \in Digits
    THEN {e \in i..Len(s) : IsNumeral(s, i, e) /\ PercentFollows(s, e, gap)}
    ELSE {}

\* the first number of s that a percent sign follows, divided by 100, as the
\* fraction num/den with the digits of the number as they are written; 0 when
\* there is none
FirstPercentNumber(s, gap) ==
  IF \E i \in 1..Len(s) : PercentNumbersAt(s, i, gap) # {}
    THEN LET i == CHOOSE x \in 1..Len(s) :
                    /\ PercentNumbersAt(s, x, gap) # {}
                    /\ \A y \in 1..(x - 1) : PercentNumbersAt(s, y, gap) = {}
             e == CHOOSE x \in PercentNumbersAt(s, i, gap) :
                    \A y \in PercentNumbersAt(s, i, gap) : y <= x
             f == ParseFloat(SubSeq(s, i, e))
         IN  [num |-> f.num, den |-> f.den * 100]
    ELSE [num |-> 0, den |-> 1]

\* C10 as claimed: the confidence of a successful analysis is the first number
\* of the diagnosis text that a percent sign follows immediately, divided by
\* 100, and 0 when the text has none.
C10_ImmediatePercent ==
  Succeeded =>
    ret.averageConfidence = FirstPercentNumber(ret.diagnosis, FALSE)

\* C10 as amended: the confidence of a successful analysis is the first number
\* of the diagnosis text that a percent sign follows, at once or after white
\* space, divided by 100, and 0 when the text has none.
C10_PercentAfterSpace ==
  Succeeded =>
    ret.averageConfidence = FirstPercentNumber(ret.diagnosis, TRUE)

\* "85.3 %", white space between the number and the percent sign: 0.853
C10_Witness ==
  /\ Succeeded
  /\ ret.diagnosis = <<"8","5",".","3"," ","%">>
  /\ ret.averageConfidence = [num |-> 853, den |-> 1000]

(***************************************************************************)
(* Properties of the assembled result.                                     *)
(***************************************************************************)
\* C11: in every result analyzeImage returns, whatever the diagnosis text of
\* the job output, averageConfidence lies between 0 and 1 inclusive.
C11_ConfidenceInUnitRange ==
  Returned =>
    /\ 0 <= ret.averageConfidence.num
    /\ ret.averageConfidence.num <= ret.averageConfidence.den

\* C12: every result analyzeImage returns, of status detected, not_detected
\* or error, has an empty boundingBoxes.
C12_NoBoundingBoxes ==
  Returned => ret.boundingBoxes = <<>>

\* a positive diagnosis was returned, with an empty boundingBoxes
C12_Witness ==
  /\ Returned
  /\ ret.status = "detected"
  /\ ret.diagnosis = Text_detected_853
  /\ ret.boundingBoxes = <<>>

(***************************************************************************)
(* The job outputs the result assembler is checked on: every sequence of   *)
(* at most four of the element values extractImageUrl and the diagnosis    *)
(* coercion tell apart.                                                    *)
(***************************************************************************)
S_http_url ==
  <<"h","t","t","p",":","/","/","h","/","o">>

\* data[3] is the last element analyzeImage reads
DiagnosisIndex == 3

ElementValues ==
  {JStr(S_tmp_a), JStr(S_http_url), JStr(S_data_image), JStr(<<>>),
   JObj(S_http_url, S_tmp_a), JObj(<<>>, S_tmp_a), JObj(<<>>, <<>>),
   JNull, JNum(0), JNum(5), JBool(FALSE)}

OutputShapes == {JArr(es) : es \in SeqsUpTo(ElementValues, DiagnosisIndex + 1)}

\* one data line, either an object with output.data or a bare array
ResultResponsesOutput ==
  {OkText(<<Line(S_data_prefix, k, o)>>) :
     k \in {"object", "array"}, o \in OutputShapes}

NextOutput ==
  \/ AnalyzeImage
  \/ ResizeImage
  \/ UploadImageToGradio(UploadResponsesDiagnosis)
  \/ PredictWithGradioAPI_Call(CallResponsesDiagnosis)
  \/ PredictWithGradioAPI_Result(ResultResponsesOutput)
  \/ PredictWithGradioAPI_Parse
  \/ PredictWithBase64_Read
  \/ PredictWithBase64_Call(CallResponsesDiagnosis)
  \/ PredictWithBase64_Result(ResultResponsesOutput)
  \/ PredictWithBase64_Parse
  \/ InterpretPrediction
  \/ ReturnResult

\* the calls whose job output is any of the output shapes
SpecOutput == InitDiagnosis /\ [][NextOutput]_vars

\* the three image references of the result, by the index of the element
ImageOf(r, i) ==
  CASE i = 0 -> r.originalImage
    [] i = 1 -> r.maskImage
    [] i = 2 -> r.overlayImage

\* the resolution rule as stated: every string that does not begin with
\* "http" or "data:" is made a file URL
ResolvedAsStated(e) ==
  IF e.t = "string"
    THEN IF StartsWith(e.s, S_http) \/ StartsWith(e.s, S_data_colon)
           THEN e.s ELSE FileUrl(e.s)
  ELSE IF e.t = "object" /\ e.url # <<>> THEN e.url
  ELSE IF e.t = "object" /\ e.path # <<>> THEN FileUrl(e.path)
  ELSE <<>>

\* the resolution rule with the empty string resolving to the empty string
ResolvedNonEmpty(e) ==
  IF e.t = "string" /\ e.s # <<>>
    THEN IF StartsWith(e.s, S_http) \/ StartsWith(e.s, S_data_colon)
           THEN e.s ELSE FileUrl(e.s)
  ELSE IF e.t = "object" /\ e.url # <<>> THEN e.url
  ELSE IF e.t = "object" /\ e.path # <<>> THEN FileUrl(e.path)
  ELSE <<>>

\* C13 as stated: each of the elements 0, 1 and 2 of the output resolves on
\* its own: a string beginning with "http" or "data:" to itself, every other
\* string s to {base}/gradio_api/file= followed by s, an object with a url to
\* the url (before its path), an object with a path to {base}/gradio_api/file=
\* followed by the path, anything else, an absent element included, to "".
C13_ResolutionAsStated ==
  (Succeeded /\ prediction.t = "array") =>
    \A i \in 0..2 : ImageOf(ret, i) = ResolvedAsStated(Index(prediction, i))

\* C13, amended: as above, but only a non-empty string that does not begin
\* with "http" or "data:" is made a file URL; the empty string resolves to "".
C13_ResolutionNonEmpty ==
  (Succeeded /\ prediction.t = "array") =>
    \A i \in 0..2 : ImageOf(ret, i) = ResolvedNonEmpty(Index(prediction, i))

\* a relative path, an object with url and path, and an absent third element
C13_Witness ==
  /\ Succeeded
  /\ prediction = JArr(<<JStr(S_tmp_a), JObj(S_http_url, S_tmp_a)>>)
  /\ ret.originalImage = FileUrl(S_tmp_a)
  /\ ret.maskImage = S_http_url
  /\ ret.overlayImage = <<>>

\* the output has fewer than four elements or a null among the first four
ShortOrNull(data) ==
  /\ data.t = "array"
  /\ \/ Len(data.elems) < DiagnosisIndex + 1
     \/ \E i \in 0..DiagnosisIndex : Index(data, i).t = "null"

\* what the call returned for a short output: no error, and "" for every
\* image element and diagnosis that is absent or null
C14_Defaults ==
  (Returned /\ ShortOrNull(prediction)) =>
    /\ ret.status \in {"detected", "not_detected"}
    /\ error = NoError
    /\ \A i \in 0..2 :
         Index(prediction, i).t \in {"undefined", "null"} => ImageOf(ret, i) = <<>>
    /\ Index(prediction, DiagnosisIndex).t \in {"undefined", "null"} =>
         ret.diagnosis = <<>>

\* C14: when the parsed output has fewer than four elements (0 to 3) or has
\* null elements, analyzeImage does not fail: the step that parses the result
\* stream returns the result, its status is not error, and each missing image
\* element and a missing diagnosis resolve to the empty string.
C14_ShortOutputDegrades ==
  /\ []C14_Defaults
  /\ [][(/\ pc \in {"parse", "b64parse"}
          /\ ParseFrom(lines, 1) # 0
          /\ ShortOrNull(lines[ParseFrom(lines, 1)].v))
          => /\ pc' = "parsed"
             /\ error' = NoError
             /\ prediction' = lines[ParseFrom(lines, 1)].v]_vars
  /\ [][(pc \in {"parsed", "interpreted"} /\ ShortOrNull(prediction))
          => (pc' \in {"interpreted", "returned"} /\ error' = NoError)]_vars

\* an output of two elements, the second null, was returned as a result with
\* one image reference and no diagnosis
C14_Witness ==
  /\ Returned
  /\ prediction = JArr(<<JStr(S_tmp_a), JNull>>)
  /\ ret.status = "not_detected"
  /\ ret.originalImage = FileUrl(S_tmp_a)
  /\ ret.maskImage = <<>>
  /\ ret.overlayImage = <<>>
  /\ ret.diagnosis = <<>>

(***************************************************************************)
(* The result streams the parsing loop is checked on: every sequence of    *)
(* at most MaxStreamLen lines of the kinds the loop tells apart.           *)
(***************************************************************************)
S_event_prefix ==
  <<"e","v","e","n","t",":"," ">>

StreamLines ==
  {Line(S_data_prefix, "malformed", JUndefined),
   Line(S_event_prefix, "malformed", JUndefined),
   Line(S_data_colon, "object", Output(Text_detected_853)),
   Line(S_data_prefix, "object", Output(Text_detected_853)),
   Line(S_data_prefix, "object", Output(Text_none_green)),
   Line(S_data_prefix, "other", JUndefined),
   Line(S_data_prefix, "array", Output(Text_result_negative))}

ResultResponsesStream ==
  {OkText(ls) : ls \in SeqsUpTo(StreamLines, MaxStreamLen)}

NextStream ==
  \/ AnalyzeImage
  \/ ResizeImage
  \/ UploadImageToGradio(UploadResponsesDiagnosis)
  \/ PredictWithGradioAPI_Call(CallResponsesDiagnosis)
  \/ PredictWithGradioAPI_Result(ResultResponsesStream)
  \/ PredictWithGradioAPI_Parse
  \/ PredictWithBase64_Read
  \/ PredictWithBase64_Call(CallResponsesDiagnosis)
  \/ PredictWithBase64_Result(ResultResponsesStream)
  \/ PredictWithBase64_Parse
  \/ InterpretPrediction
  \/ ReturnResult

\* the calls whose result stream is any of the streams
SpecStream == InitDiagnosis /\ [][NextStream]_vars

\* a line "data: " followed by the JSON of an object with output.data
ValidDataLine(l) ==
  StartsWith(l.head, S_data_prefix) /\ l.k = "object" /\ l.v.t = "array"

\* a line without the prefix "data: ", or with it and no valid JSON behind it
GarbageLine(l) ==
  ~StartsWith(l.head, S_data_prefix) \/ l.k = "malformed"

\* exactly one valid data line, every other line garbage
OneValidAmongGarbage(ls) ==
  \E i \in 1..Len(ls) :
    /\ ValidDataLine(ls[i])
    /\ \A j \in 1..Len(ls) : j # i => GarbageLine(ls[j])

TheValidLine(ls) == CHOOSE i \in 1..Len(ls) : ValidDataLine(ls[i])

AtParse == pc \in {"parse", "b64parse"}

\* C15: on a result stream in which malformed lines, lines without the prefix
\* "data: " and exactly one valid data line carrying output.data are
\* interleaved in any order, the parsing loop returns the data of the valid
\* line; and a line whose remainder is no valid JSON never makes the attempt
\* fail: whenever the stream has a valid data line the loop returns.
C15_ValidLineAmongGarbage ==
  /\ [][(AtParse /\ OneValidAmongGarbage(lines))
          => /\ pc' = "parsed"
             /\ error' = NoError
             /\ prediction' = lines[TheValidLine(lines)].v]_vars
  /\ [][(AtParse /\ \E i \in 1..Len(lines) : ValidDataLine(lines[i]))
          => (pc' = "parsed" /\ error' = NoError)]_vars

\* a malformed line, the valid line and a line without the prefix, parsed to
\* the data of the valid line
C15_Witness ==
  /\ pc = "parsed"
  /\ error = NoError
  /\ lines = <<Line(S_data_prefix, "malformed", JUndefined),
               Line(S_data_prefix, "object", Output(Text_detected_853)),
               Line(S_event_prefix, "malformed", JUndefined)>>
  /\ prediction = Output(Text_detected_853)

(***************************************************************************)
(* Two calls of analyzeImage, run one after the other or interleaved at    *)
(* their awaits.                                                           *)
(***************************************************************************)
CallResponsesTwoCalls == {OkJson(JStr(S_event_1)), OkJson(JStr(S_event_2))}

ResultResponsesTwoCalls ==
  {OkText(<<>>)}
    \cup {OkText(<<Line(S_data_prefix, "object", Output(t))>>) :
            t \in {Text_detected_853, Text_none_green}}

InitTwoCalls == InitCall /\ other \in {IdleCall(u) : u \in ImageUris}

NextTwoCalls ==
  \/ AnalyzeImage
  \/ ResizeImage
  \/ UploadImageToGradio(UploadResponsesDiagnosis)
  \/ PredictWithGradioAPI_Call(CallResponsesTwoCalls)
  \/ PredictWithGradioAPI_Result(ResultResponsesTwoCalls)
  \/ PredictWithGradioAPI_Parse
  \/ PredictWithBase64_Read
  \/ PredictWithBase64_Call(CallResponsesTwoCalls)
  \/ PredictWithBase64_Result(ResultResponsesTwoCalls)
  \/ PredictWithBase64_Parse
  \/ InterpretPrediction
  \/ ReturnResult
  \/ SwitchCall

SpecTwoCalls == InitTwoCalls /\ [][NextTwoCalls]_vars

\* the kinds of the requests of a log, in order
KindsOf(log) == [i \in 1..Len(log) |-> log[i].kind]

\* the image the transport functions of call c are given
TransportUriOf(c) == IF variant = "resize" THEN c.resizedImageUri ELSE c.imageUri

\* call c has issued every request of the path that gave its result itself
OwnRequestsComplete(c) ==
  (c.pc = "returned" /\ c.error = NoError) =>
    LET up == SelectSeq(c.requests, LAMBDA r : r.by \in UploadPathFunctions)
        inl == SelectSeq(c.requests,
                 LAMBDA r : r.by \in InlinePathFunctions /\ r.kind # "read")
    IN  IF c.uploadError = NoError
          THEN /\ KindsOf(c.requests) = <<"upload", "call", "result">>
               /\ c.requests[1].arg = JStr(TransportUriOf(c))
          ELSE /\ Len(up) >= 1
               /\ up[1].kind \in {"read", "upload"}
               /\ up[1].arg = JStr(TransportUriOf(c))
               /\ KindsOf(inl) = <<"call", "result">>

\* the result of call c is what the answer to its own result request gives
ResultFromOwnResponses(c) ==
  /\ c.pc = "parsed" =>
       /\ ParseFrom(c.lines, 1) # 0
       /\ c.prediction = c.lines[ParseFrom(c.lines, 1)].v
  /\ (c.pc = "returned" /\ c.error = NoError) =>
       c.ret = SuccessResult(variant, c.imageUri, c.prediction)

\* C16: two calls of analyzeImage, run one after the other or interleaved at
\* any of their awaits, share no mutable state: a step of one call leaves the
\* variables of the other untouched and a call that is resumed finds its own
\* as it left them; each call issues its own complete set of requests, also
\* when both are given the same image; each result is made from the answers
\* to the call's own requests.
C16_CallsIndependent ==
  /\ [](\A c \in {CallState, other} :
          OwnRequestsComplete(c) /\ ResultFromOwnResponses(c))
  /\ [][/\ current' = current => other' = other
        /\ current' # current => (other' = CallState /\ CallState' = other)]_vars

\* both calls were given the same image, ran interleaved and returned, each
\* with its own three requests and the diagnosis of its own result stream
C16_Witness ==
  /\ pc = "returned" /\ other.pc = "returned"
  /\ other.imageUri = imageUri
  /\ uploadError = NoError /\ other.uploadError = NoError
  /\ KindsOf(requests) = <<"upload", "call", "result">>
  /\ KindsOf(other.requests) = <<"upload", "call", "result">>
  /\ requests[3].arg # other.requests[3].arg
  /\ ret.diagnosis = Text_detected_853
  /\ other.ret.diagnosis = Text_none_green

(***************************************************************************)
(* The analyzing screen and the result screen it navigates to.             *)
(***************************************************************************)
\* the summary card of ResultScreen: its title depends on the number of
\* bounding boxes of the results parameter alone
ResultScreenSummary(results) ==
  LET detectionsCount == Len(results.boundingBoxes)
      hasDetections == detectionsCount > 0
  IN  IF hasDetections THEN "Pneumothorax Detected"
      ELSE "No Pneumothorax Detected"

\* performAnalysis once analyzeImage has resolved: the result is added to the
\* history and the router replaces the screen by the result screen, which
\* renders its summary; when adding to the history fails the router goes back
PerformAnalysis ==
  /\ screen = "analyzing"
  /\ pc = "returned"
  /\ history' = <<NewId>> \o closure
  /\ calls' = Append(calls, HistoryCall("add", NewId))
  /\ \E saved \in BOOLEAN :
       IF saved
         THEN /\ storage' = Stored(history')
              /\ screen' = "result"
              /\ summary' = ResultScreenSummary(ret)
         ELSE /\ screen' = "previous"
              /\ UNCHANGED <<storage, summary>>
  /\ UNCHANGED <<variant, isWeb, imageUri, pc, resizedImageUri, filePath,
                 eventId, base64, lines, uploadError, error, prediction, ret,
                 requests, current, other, closure, writes>>

NextScreen ==
  \/ AnalyzeImage
  \/ ResizeImage
  \/ UploadImageToGradio(UploadResponsesDiagnosis)
  \/ PredictWithGradioAPI_Call(CallResponsesDiagnosis)
  \/ PredictWithGradioAPI_Result(ResultResponsesTwoCalls)
  \/ PredictWithGradioAPI_Parse
  \/ PredictWithBase64_Read
  \/ PredictWithBase64_Call(CallResponsesDiagnosis)
  \/ PredictWithBase64_Result(ResultResponsesTwoCalls)
  \/ PredictWithBase64_Parse
  \/ InterpretPrediction
  \/ ReturnResult
  \/ PerformAnalysis

\* one analysis started from the analyzing screen
SpecScreen == Init /\ [][NextScreen]_vars

\* C17: whenever analyzeImage has returned a result of status error, the
\* result screen the user is taken to shows a failure state and never the
\* summary "No Pneumothorax Detected".
C17_ErrorShownAsFailure ==
  (screen = "result" /\ ret.status = "error") =>
    summary # "No Pneumothorax Detected"

(***************************************************************************)
(* The states of one analysis call.                                        *)
(***************************************************************************)
\* the answers to the result request: a failed fetch, a status that is no
\* success, a stream without a result and streams with one (an empty output,
\* and an output whose diagnosis is the keyword "positive")
ResultResponsesPhases ==
  {Throws, NotOk(S_404, StatusText(S_404)), OkText(<<>>),
   OkText(<<Line(S_data_prefix, "array", JArr(<<>>))>>),
   OkText(<<Line(S_data_prefix, "object", Output(S_positive))>>)}

NextPhases ==
  \/ AnalyzeImage
  \/ ResizeImage
  \/ UploadImageToGradio(UploadResponses)
  \/ PredictWithGradioAPI_Call(CallResponses)
  \/ PredictWithGradioAPI_Result(ResultResponsesPhases)
  \/ PredictWithGradioAPI_Parse
  \/ PredictWithBase64_Read
  \/ PredictWithBase64_Call(CallResponses)
  \/ PredictWithBase64_Result(ResultResponsesPhases)
  \/ PredictWithBase64_Parse
  \/ InterpretPrediction
  \/ ReturnResult
  \/ PerformAnalysis

\* one analysis whose awaited operations all settle: the flow is resumed
\* whenever the operation it waits for has resolved or rejected
SpecPhases == Init /\ [][NextPhases]_vars /\ WF_vars(NextPhases)

\* the state of the call, in the words of the state machine
Phase ==
  CASE pc \in {"idle", "resize"} -> "Started"
    [] pc \in {"upload", "call", "result", "parse"} -> "UploadAttempt"
    [] pc \in {"b64read", "b64call", "b64result", "b64parse"} -> "InlineAttempt"
    [] pc = "parsed" -> "Parsed"
    [] pc = "interpreted" -> "Interpreted"
    [] pc = "returned" /\ ret.status # "error" -> "AssembledSuccess"
    [] pc = "returned" /\ ret.status = "error" -> "AssembledError"
    [] OTHER -> "None"

TerminalPhases == {"AssembledSuccess", "AssembledError"}

\* a step in which a catch block caught a failure
StepFailed == uploadError' # uploadError \/ error' # error

\* the transitions of the state machine as it is written down
StatedTransitions ==
  {<<"Started", "UploadAttempt">>, <<"Started", "InlineAttempt">>,
   <<"UploadAttempt", "Parsed">>, <<"InlineAttempt", "Parsed">>,
   <<"Parsed", "Interpreted">>, <<"Interpreted", "AssembledSuccess">>}

\* the transitions without a failure the call makes
SuccessTransitions ==
  {<<"Started", "UploadAttempt">>,
   <<"UploadAttempt", "Parsed">>, <<"InlineAttempt", "Parsed">>,
   <<"Parsed", "Interpreted">>, <<"Interpreted", "AssembledSuccess">>}

\* the transitions with a failure the call makes
FailureTransitions ==
  {<<"Started", "AssembledError">>, <<"UploadAttempt", "InlineAttempt">>,
   <<"InlineAttempt", "AssembledError">>}

\* C18 as stated: each call moves Started, UploadAttempt or InlineAttempt,
\* Parsed, Interpreted, Assembled(success) in that order, a failure in any
\* state moves the call directly to Assembled(error), both Assembled states
\* are terminal and one of them is reached.
C18_StatedMachine ==
  /\ [][(Phase' # Phase /\ ~StepFailed)
          => <<Phase, Phase'>> \in StatedTransitions]_vars
  /\ [][StepFailed => Phase' = "AssembledError"]_vars
  /\ [][(Phase \in TerminalPhases) => (Phase' = Phase /\ ret' = ret)]_vars
  /\ <>(Phase \in TerminalPhases)

\* C18 as the code has it: the call moves Started, UploadAttempt, Parsed,
\* Interpreted, Assembled(success) in that order; a failure in UploadAttempt
\* moves it to InlineAttempt, from where it goes on to Parsed; a failure in
\* Started or InlineAttempt moves it directly to Assembled(error), and
\* Assembled(error) is entered in no other way; nothing fails in Parsed and
\* Interpreted; both Assembled states are terminal, and when every awaited
\* operation settles exactly one of them is reached.
C18_Machine ==
  /\ [][(Phase' # Phase /\ ~StepFailed)
          => <<Phase, Phase'>> \in SuccessTransitions]_vars
  /\ [][StepFailed => <<Phase, Phase'>> \in FailureTransitions]_vars
  /\ [][(Phase' = "AssembledError" /\ Phase # "AssembledError")
          => StepFailed]_vars
  /\ [][(Phase \in TerminalPhases) => (Phase' = Phase /\ ret' = ret)]_vars
  /\ [](Phase # "None")
  /\ <>(Phase \in TerminalPhases)

\* the upload attempt failed, the inline attempt led through Parsed and
\* Interpreted to Assembled(success), and the screen went on from there
C18_Witness ==
  /\ Phase = "AssembledSuccess"
  /\ UploadPathFailed
  /\ error = NoError
  /\ screen = "result"

(***************************************************************************)
(* The upload that is answered with an empty array.                        *)
(***************************************************************************)
\* uploadImageToGradio returned: analyzeImage goes on to predictWithGradioAPI
UploadReturned == pc = "upload" /\ pc' = "call"

\* the job-creation requests of the upload path
UploadPathJobCreations ==
  {i \in 1..Len(requests) :
     requests[i].kind = "call" /\ requests[i].by = "predictWithGradioAPI"}

\* C19: when the upload endpoint answers with success and an empty array,
\* uploadImageToGradio fails: it never returns without a file reference, so
\* the upload path issues no job-creation request that carries no file
\* reference, and a call whose upload returned no file reference is never
\* found in predictWithGradioAPI.
C19_EmptyUploadFails ==
  /\ [][UploadReturned => filePath' # JUndefined]_vars
  /\ [](\A i \in UploadPathJobCreations : requests[i].arg # JUndefined)
  /\ [](pc \in {"call", "result", "parse"} => filePath # JUndefined)

(***************************************************************************)
(* The order of the requests of an attempt, and the answers whose status   *)
(* is no success.                                                          *)
(***************************************************************************)
\* the answers with a status outside 200-299
NonSuccess == {NotOk(st, StatusText(st)) : st \in Statuses}

\* the kinds of the requests a set of functions sent to the API, in order
\* (reading the image is no request to the API)
ApiKindsBy(fs) ==
  LET sent == SelectSeq(requests,
                LAMBDA q : q.by \in fs /\ q.kind \in {"upload", "call", "result"})
  IN  [i \in 1..Len(sent) |-> sent[i].kind]

IsPrefix(s, t) == Len(s) <= Len(t) /\ s = SubSeq(t, 1, Len(s))

InlinePcs == {"b64read", "b64call", "b64result", "b64parse"}

\* the requests of each attempt are in order
C20_Order ==
  /\ IsPrefix(ApiKindsBy(UploadPathFunctions), <<"upload", "call", "result">>)
  /\ IsPrefix(ApiKindsBy(InlinePathFunctions), <<"call", "result">>)

\* a step in which the upload attempt failed with the message m: the inline
\* attempt is next
UploadAttemptFails(m) ==
  /\ uploadError = NoError
  /\ uploadError'.isError
  /\ uploadError'.message = m
  /\ pc' \in InlinePcs

\* a step in which the inline attempt failed with the message m: the error
\* result is returned
InlineAttemptFails(m) ==
  /\ error = NoError
  /\ error'.isError
  /\ error'.message = m
  /\ pc' = "returned"
  /\ ret'.status = "error"

\* C20: within one attempt the requests are issued in the order upload, job
\* creation, result fetch (job creation, result fetch for the inline
\* attempt); an answer with a non-success status to any of them fails the
\* attempt in that very step, and once an attempt has failed it issues no
\* further request; the message of an upload failure is "Upload failed: "
\* followed by the status code, " - " and the text of the body.
C20_OrderAndStatus ==
  /\ []C20_Order
  /\ [][\A r \in NonSuccess :
          /\ UploadImageToGradio({r}) =>
               UploadAttemptFails(S_Upload_failed \o r.status \o S_dash \o r.text)
          /\ PredictWithGradioAPI_Call({r}) =>
               UploadAttemptFails(S_Call_predict_failed \o r.status \o S_dash \o r.text)
          /\ PredictWithGradioAPI_Result({r}) =>
               UploadAttemptFails(S_Result_fetch_failed \o r.status)
          /\ PredictWithBase64_Call({r}) =>
               InlineAttemptFails(S_Base64_call_failed \o r.status \o S_dash \o r.text)
          /\ PredictWithBase64_Result({r}) =>
               InlineAttemptFails(S_Base64_result_fetch_failed \o r.status)]_vars
  /\ [][UploadPathFailed =>
          RequestsBy(UploadPathFunctions)' = RequestsBy(UploadPathFunctions)]_vars
  /\ [][error # NoError => requests' = requests]_vars

\* the upload was answered 404 Not Found: the upload attempt sent nothing
\* else, and the inline attempt has sent its job creation
C20_Witness ==
  /\ uploadError.message = S_Upload_failed \o S_404 \o S_dash \o S_Not_Found
  /\ ApiKindsBy(UploadPathFunctions) = <<"upload">>
  /\ ApiKindsBy(InlinePathFunctions) = <<"call">>
  /\ pc = "b64result"

(***************************************************************************)
(* Result streams made of every kind of line the parsing loops tell apart. *)
(***************************************************************************)
ParseLines ==
  {Line(S_data_prefix, "malformed", JUndefined),
   Line(S_event_prefix, "malformed", JUndefined),
   Line(S_data_colon, "object", Output(Text_detected_853)),
   Line(S_data_prefix, "object", JUndefined),
   Line(S_data_prefix, "other", JUndefined),
   Line(S_data_prefix, "object", JNum(0)),
   Line(S_data_prefix, "object", JStr(S_positive)),
   Line(S_data_prefix, "object", JObj(<<>>, S_tmp_a)),
   Line(S_data_prefix, "object", JArr(<<>>)),
   Line(S_data_prefix, "array", JArr(<<>>)),
   Line(S_data_prefix, "object", Output(Text_detected_853)),
   Line(S_data_prefix, "array", Output(Text_none_green))}

ResultResponsesParse ==
  {OkText(ls) : ls \in SeqsUpTo(ParseLines, MaxParseLen)}

NextParse ==
  \/ AnalyzeImage
  \/ ResizeImage
  \/ UploadImageToGradio(UploadResponsesDiagnosis)
  \/ PredictWithGradioAPI_Call(CallResponsesDiagnosis)
  \/ PredictWithGradioAPI_Result(ResultResponsesParse)
  \/ PredictWithGradioAPI_Parse
  \/ PredictWithBase64_Read
  \/ PredictWithBase64_Call(CallResponsesDiagnosis)
  \/ PredictWithBase64_Result(ResultResponsesParse)
  \/ PredictWithBase64_Parse
  \/ InterpretPrediction
  \/ ReturnResult

\* the calls whose result streams are made of these lines
SpecParse == InitDiagnosis /\ [][NextParse]_vars

\* a line that yields no usable output: it has no prefix "data: ", or what
\* follows the prefix does not parse, or parses to a value that has no
\* output.data and is no array
UnusableLine(l) ==
  \/ ~StartsWith(l.head, S_data_prefix)
  \/ l.k = "malformed"
  \/ l.k = "other"
  \/ l.k = "object" /\ l.v = JUndefined

NoUsableLine(ls) == \A i \in 1..Len(ls) : UnusableLine(ls[i])

\* C21: when no line of the result stream yields usable output the attempt
\* fails with its no-valid-result error and sends no further request (the
\* result is fetched once in each attempt): in the upload path the inline
\* attempt is next, in the inline path the error result is returned, with
\* the message in its diagnosis.
C21_NoValidResult ==
  /\ [][(pc = "parse" /\ NoUsableLine(lines))
          => /\ uploadError' = Err(S_No_valid_result, "predictWithGradioAPI")
             /\ pc' \in InlinePcs
             /\ error' = NoError
             /\ requests' = requests]_vars
  /\ [][(pc = "b64parse" /\ NoUsableLine(lines))
          => /\ error' = Err(S_No_valid_base64, "predictWithBase64")
             /\ pc' = "returned"
             /\ ret'.status = "error"
             /\ ret'.diagnosis = S_Error_prefix \o S_No_valid_base64
             /\ requests' = requests]_vars
  /\ [](CountOf("result", UploadPathFunctions) <= 1
          /\ CountOf("result", InlinePathFunctions) <= 1)

\* neither stream had a usable line: the upload path failed with its message,
\* the inline path with its own, after one result request each
C21_Witness ==
  /\ Returned
  /\ uploadError.message = S_No_valid_result
  /\ error.message = S_No_valid_base64
  /\ CountOf("result", UploadPathFunctions) = 1
  /\ CountOf("result", InlinePathFunctions) = 1
  /\ ret.status = "error"

\* C22: whenever the parsing loop has succeeded, the value handed to the
\* interpreter is an ordered sequence: a data line whose output.data is a
\* string, a number or an object is never accepted as the result.
C22_ParsedIsSequence ==
  pc \in {"parsed", "interpreted"} => prediction.t = "array"

(***************************************************************************)
(* The diagnosis of a successful analysis.                                 *)
(***************************************************************************)
S_false ==
  <<"f","a","l","s","e">>
S_null ==
  <<"n","u","l","l">>

\* the string representation of a value that is no string: String(v)
StringRepresentation(v) ==
  CASE v.t = "number" -> DecimalString(v.n)
    [] v.t = "boolean" -> IF v.n = 1 THEN S_true ELSE S_false
    [] v.t = "null" -> S_null
    [] v.t = "object" -> S_object_Object

\* the values for which v || "" is ""
FalsyValues == {JUndefined, JNull, JNum(0), JBool(FALSE), JStr(<<>>)}

\* element 3 of the output the call interpreted
Element3 == Index(prediction, DiagnosisIndex)

\* C23 as stated: the diagnosis is element 3 unchanged when it is a string,
\* the string representation of element 3 when it is any other value, the
\* number 0 and the boolean false included, and "" when element 3 is absent.
C23_DiagnosisAsStated ==
  (Succeeded /\ prediction.t = "array") =>
    ret.diagnosis =
      (IF Element3.t = "string" THEN Element3.s
       ELSE IF Element3.t = "undefined" THEN <<>>
       ELSE StringRepresentation(Element3))

\* C23 as the code has it: the diagnosis is element 3 unchanged when it is a
\* string, the string representation of element 3 when it is a truthy value
\* that is no string, and "" when element 3 is absent, null, the number 0 or
\* the boolean false.
C23_Diagnosis ==
  (Succeeded /\ prediction.t = "array") =>
    ret.diagnosis =
      (IF Element3.t = "string" THEN Element3.s
       ELSE IF Element3 \in FalsyValues THEN <<>>
       ELSE StringRepresentation(Element3))

\* element 3 is the number 5 and the diagnosis its digits
C23_Witness ==
  /\ Succeeded
  /\ Element3 = JNum(5)
  /\ ret.diagnosis = <<"5">>

(***************************************************************************)
(* The event id of an attempt.                                             *)
(***************************************************************************)
\* the answers to a job creation that yield an event id (the value of the
\* attribute event_id, undefined when the object has none)
JobCreated == {r \in CallResponses : r.o = "ok" /\ r.json.t # "malformed"}

\* the positions of the requests of a kind a set of functions issued
PositionsOf(kind, fs) ==
  {i \in 1..Len(requests) : requests[i].kind = kind /\ requests[i].by \in fs}

\* every result request directly follows the job creation of its own function
ResultFollowsOwnJobCreation ==
  \A i \in 1..Len(requests) :
    requests[i].kind = "result" =>
      /\ i > 1
      /\ requests[i - 1].kind = "call"
      /\ requests[i - 1].by = requests[i].by

\* the inline attempt holds nothing of the upload attempt: no file reference,
\* and no event id before its own job creation
InlineHoldsNothingOfUpload ==
  /\ pc \in InlinePcs => filePath = JUndefined
  /\ pc \in {"b64read", "b64call"} => eventId = JUndefined
  /\ \A i \in PositionsOf("call", InlinePathFunctions) :
       requests[i].arg.t = "string" /\ StartsWith(requests[i].arg.s, S_data_colon)

\* C24: in each attempt the result request is issued once, directly after the
\* job creation of that attempt was answered, and carries the event id that
\* answer returned; the inline attempt holds neither the event id nor the
\* file reference of the failed upload attempt, and its job creation carries
\* the image itself.
C24_EventIdOfOwnJobCreation ==
  /\ [](CountOf("result", UploadPathFunctions) <= 1
          /\ CountOf("result", InlinePathFunctions) <= 1)
  /\ [](pc = "parse" => CountOf("result", UploadPathFunctions) = 1)
  /\ [](pc = "b64parse" => CountOf("result", InlinePathFunctions) = 1)
  /\ []ResultFollowsOwnJobCreation
  /\ []InlineHoldsNothingOfUpload
  /\ [][\A r \in JobCreated :
          /\ PredictWithGradioAPI_Call({r}) => (pc' = "result" /\ eventId' = r.json)
          /\ PredictWithBase64_Call({r}) => (pc' = "b64result" /\ eventId' = r.json)]_vars
  /\ [][(pc = "result") =>
          requests' = Append(requests,
                        Request("result", "predictWithGradioAPI", eventId))]_vars
  /\ [][(pc = "b64result") =>
          requests' = Append(requests,
                        Request("result", "predictWithBase64", eventId))]_vars

\* the upload attempt polled the event id ev1 and found no result; the inline
\* attempt was given ev2 and polled that
C24_Witness ==
  /\ pc = "b64parse"
  /\ uploadError.message = S_No_valid_result
  /\ \E i \in PositionsOf("result", UploadPathFunctions) :
       requests[i].arg = JStr(S_event_1)
  /\ \E i \in PositionsOf("result", InlinePathFunctions) :
       requests[i].arg = JStr(S_event_2)

(***************************************************************************)
(* Termination of a call.                                                  *)
(***************************************************************************)
\* C25: when every awaited operation settles, every call of analyzeImage
\* returns a result, and it does so after at most three requests of the
\* upload path and at most three of the inline path.
C25_ReturnsAfterBoundedRequests ==
  /\ <>Returned
  /\ [](Len(RequestsBy(UploadPathFunctions)) <= 3)
  /\ [](Len(RequestsBy(InlinePathFunctions)) <= 3)
  /\ [](Len(requests) = Len(RequestsBy(UploadPathFunctions))
                          + Len(RequestsBy(InlinePathFunctions)))

\* the call returned after three requests of each path
C25_Witness ==
  /\ Succeeded
  /\ Len(RequestsBy(UploadPathFunctions)) = 3
  /\ Len(RequestsBy(InlinePathFunctions)) = 3
  /\ Len(requests) = 6

(***************************************************************************)
(* The resize step of the resizing variant.                                *)
(***************************************************************************)
\* the image each request of the two paths carries is the resized one: the
\* upload and the read of the inline path name it, the job creation of the
\* inline path carries its data URL
RequestsCarryResized ==
  \A i \in 1..Len(requests) :
    LET q == requests[i] IN
      /\ q.kind \in {"upload", "read"} => q.arg = JStr(resizedImageUri)
      /\ (q.kind = "call" /\ q.by = "predictWithBase64") =>
           q.arg = JStr(ReadAsDataURL(resizedImageUri))

\* C26: in the resizing variant a failure of the resize step leads directly
\* to the error result, without any request and without the inline attempt;
\* when the resize succeeded the upload path and the inline path are given
\* the resized image, and the imageUri of the result is the image the call
\* was given.
C26_ResizeStep ==
  /\ [][(variant = "resize" /\ pc = "resize")
          => \/ /\ pc' = "upload"
                /\ resizedImageUri' # <<>>
                /\ resizedImageUri' # imageUri
                /\ error' = NoError
             \/ /\ pc' = "returned"
                /\ error'.from = "resizeImage"
                /\ ret'.status = "error"
                /\ requests' = <<>>
                /\ uploadError' = NoError]_vars
  /\ []((variant = "resize" /\ error.from = "resizeImage")
          => (Returned /\ requests = <<>> /\ ~UploadPathFailed))
  /\ [](variant = "resize" => RequestsCarryResized)
  /\ []((variant = "resize" /\ Returned) => ret.imageUri = imageUri)

\* the resize succeeded on a device, the upload of the resized file failed
\* and the inline attempt, given the same file, succeeded
C26_Witness ==
  /\ variant = "resize"
  /\ Succeeded
  /\ resizedImageUri = S_file_resized
  /\ \E i \in 1..Len(requests) :
       requests[i].kind = "upload" /\ requests[i].arg = JStr(S_file_resized)
  /\ \E i \in 1..Len(requests) :
       requests[i].by = "predictWithBase64" /\ requests[i].kind = "call"
         /\ requests[i].arg = JStr(S_data_resized)
  /\ ret.imageUri = imageUri
  /\ imageUri # S_file_resized

(***************************************************************************)
(* The empty output.                                                       *)
(***************************************************************************)
\* a line that is the empty array, or an object whose output.data is it
EmptyDataLine(l) ==
  /\ StartsWith(l.head, S_data_prefix)
  /\ l.k \in {"object", "array"}
  /\ l.v = JArr(<<>>)

\* the parsing loop is about to run over a stream whose first line that is
\* not unusable is a line with empty data
AcceptsEmptyData ==
  /\ pc \in {"parse", "b64parse"}
  /\ \E i \in 1..Len(lines) :
       /\ EmptyDataLine(lines[i])
       /\ \A j \in 1..(i - 1) : UnusableLine(lines[j])

\* the result of a call that interpreted the empty output
EmptyOutputResult ==
  /\ ret.status = "not_detected"
  /\ ret.averageConfidence.num = 0
  /\ ret.originalImage = <<>>
  /\ ret.maskImage = <<>>
  /\ ret.overlayImage = <<>>
  /\ ret.diagnosis = <<>>
  /\ error = NoError

\* C27: when the parsing loop accepts a line whose data is the empty array
\* (the line is the array itself or an object whose output.data is it), the
\* call returns a normal result: status not_detected, confidence 0, three
\* empty image URLs and an empty diagnosis; no catch block runs, so the
\* status is not error and an upload path that accepted the line is not
\* followed by the inline attempt.
C27_EmptyOutput ==
  /\ [][AcceptsEmptyData
          => /\ pc' = "parsed"
             /\ prediction' = JArr(<<>>)
             /\ uploadError' = uploadError
             /\ error' = NoError]_vars
  /\ [][(pc \in {"parsed", "interpreted"})
          => /\ pc' = (IF pc = "parsed" THEN "interpreted" ELSE "returned")
             /\ prediction' = prediction
             /\ uploadError' = uploadError
             /\ requests' = requests]_vars
  /\ []((Returned /\ error = NoError /\ prediction = JArr(<<>>))
          => /\ EmptyOutputResult
             /\ ~UploadPathFailed => RequestsBy(InlinePathFunctions) = <<>>)

\* the upload path accepted an empty output and the call returned
C27_Witness ==
  /\ Returned
  /\ prediction = JArr(<<>>)
  /\ ~UploadPathFailed
  /\ EmptyOutputResult
  /\ Len(requests) = 3

(***************************************************************************)
(* The two parsing loops.                                                  *)
(***************************************************************************)
\* what a parsing loop gives for a stream: the data it returns, or that it
\* fails
LoopOutcome(ls, p) ==
  IF p = 0 THEN [fails |-> TRUE, data |-> JUndefined]
  ELSE [fails |-> FALSE, data |-> ls[p].v]

\* C28: the parsing loop of predictWithGradioAPI and that of predictWithBase64
\* are equivalent: on every stream either of them is run on, both return the
\* same data or both fail; the step of either path hands that data on or
\* fails, and the two failures differ in their message only.
C28_LoopsEquivalent ==
  /\ [](pc \in {"parse", "b64parse"} =>
          LoopOutcome(lines, ParseGradio(lines))
            = LoopOutcome(lines, ParseBase64(lines)))
  /\ [][(pc = "parse")
          => IF LoopOutcome(lines, ParseBase64(lines)).fails
               THEN uploadError' = Err(S_No_valid_result, "predictWithGradioAPI")
               ELSE /\ pc' = "parsed"
                    /\ prediction' = LoopOutcome(lines, ParseBase64(lines)).data]_vars
  /\ [][(pc = "b64parse")
          => IF LoopOutcome(lines, ParseGradio(lines)).fails
               THEN error' = Err(S_No_valid_base64, "predictWithBase64")
               ELSE /\ pc' = "parsed"
                    /\ prediction' = LoopOutcome(lines, ParseGradio(lines)).data]_vars

\* the inline loop has returned the output.data of an object that follows a
\* line that does not parse
C28_Witness ==
  /\ pc = "parsed"
  /\ UploadPathFailed
  /\ lines = <<Line(S_data_prefix, "malformed", JUndefined),
               Line(S_data_prefix, "object", Output(Text_detected_853))>>
  /\ prediction = Output(Text_detected_853)

(***************************************************************************)
(* The history store of AnalysisProvider.  setHistory replaces the state;  *)
(* the callbacks see the history of the render that created them until the *)
(* provider is rendered again.                                             *)
(***************************************************************************)
\* a write to storage that is awaited: the call it belongs to, whether it is
\* removeItem, and the list setItem is given
Write(call, remove, items) == [call |-> call, remove |-> remove, items |-> items]

\* the write AsyncStorage serves next: the one that was issued first
OldestWrite == CHOOSE w \in writes : \A x \in writes : w.call <= x.call

\* items.filter((item) => item.id !== id)
Without(items, id) == SelectSeq(items, LAMBDA x : x # id)

\* addToHistory(result, apiResponse) up to the await of saveHistory
AddToHistory ==
  /\ Len(calls) < MaxCalls
  /\ LET historyItem == NewId
         newHistory == <<historyItem>> \o closure
     IN  /\ history' = newHistory
         /\ writes' = writes \cup {Write(Len(calls) + 1, FALSE, newHistory)}
         /\ calls' = Append(calls, HistoryCall("add", historyItem))
  /\ UNCHANGED <<closure, storage>>
  /\ UNCHANGED analysisVars

\* removeFromHistory(id) up to the await of saveHistory
RemoveFromHistory ==
  /\ Len(calls) < MaxCalls
  /\ \E id \in AddedIds :
       LET newHistory == Without(closure, id)
       IN  /\ history' = newHistory
           /\ writes' = writes \cup {Write(Len(calls) + 1, FALSE, newHistory)}
           /\ calls' = Append(calls, HistoryCall("remove", id))
  /\ UNCHANGED <<closure, storage>>
  /\ UNCHANGED analysisVars

\* clearHistory up to the await of AsyncStorage.removeItem
ClearHistory ==
  /\ Len(calls) < MaxCalls
  /\ history' = <<>>
  /\ writes' = writes \cup {Write(Len(calls) + 1, TRUE, <<>>)}
  /\ calls' = Append(calls, HistoryCall("clear", 0))
  /\ UNCHANGED <<closure, storage>>
  /\ UNCHANGED analysisVars

\* AsyncStorage settles the oldest write: it is done, or it fails and
\* saveHistory throws the failure on
CompleteWrite(outcomes) ==
  /\ writes # {}
  /\ \E done \in outcomes :
       /\ writes' = writes \ {OldestWrite}
       /\ storage' = IF ~done THEN storage
                     ELSE IF OldestWrite.remove THEN StorageAbsent
                     ELSE Stored(OldestWrite.items)
  /\ UNCHANGED <<history, closure, calls>>
  /\ UNCHANGED analysisVars

\* the provider is rendered with the new state: the callbacks are created
\* again and close over it
Render ==
  /\ closure # history
  /\ closure' = history
  /\ UNCHANGED <<history, storage, writes, calls>>
  /\ UNCHANGED analysisVars

\* loadHistory: the stored list, when there is one, replaces the state
LoadHistory ==
  /\ history' = IF storage.present THEN storage.items ELSE history
  /\ UNCHANGED <<closure, storage, writes, calls>>
  /\ UNCHANGED analysisVars

NextInterleaving ==
  \/ AddToHistory
  \/ RemoveFromHistory
  \/ CompleteWrite({TRUE})
  \/ Render

\* calls of addToHistory and removeFromHistory whose writes all succeed
SpecInterleaving == InitDiagnosis /\ [][NextInterleaving]_vars

NextHistory ==
  \/ AddToHistory
  \/ RemoveFromHistory
  \/ ClearHistory
  \/ CompleteWrite(BOOLEAN)
  \/ Render
  \/ LoadHistory

\* the history store with all its callbacks and with writes that fail
SpecHistory == InitDiagnosis /\ [][NextHistory]_vars

RECURSIVE HistoryAfter(_, _)
\* the history after the first n calls, each applied to the result of the one
\* before it
HistoryAfter(cs, n) ==
  IF n = 0 THEN <<>>
  ELSE LET before == HistoryAfter(cs, n - 1)
           c == cs[n]
       IN  CASE c.op = "add" -> <<c.id>> \o before
             [] c.op = "remove" -> Without(before, c.id)
             [] c.op = "clear" -> <<>>

\* every call has completed and the provider has been rendered
AllCompleted == writes = {} /\ closure = history

\* C29: after any interleaving of addToHistory and removeFromHistory calls
\* has completed no update is lost: the history holds every item that was
\* added and not removed, once and newest first, and no removed one, also
\* when a call starts before the state update of the call before it has been
\* rendered.
C29_NoLostUpdate ==
  AllCompleted => history = HistoryAfter(calls, Len(calls))

\* the history held in storage, an absent key counting as the empty history
StoredHistory == IF storage.present THEN storage.items ELSE <<>>

\* C30: after every completed addToHistory, removeFromHistory or clearHistory
\* call, one whose write failed included, the history in memory equals the
\* history in storage, so a later loadHistory gives the same list.
C30_MemoryEqualsStorage ==
  (writes = {} /\ calls # <<>>) => history = StoredHistory

=============================================================================
